---- MODULE Spec2Model ----
(***************************************************************************)
(* State-machine model of rougeap.ino: the boot-mode decision of setup(),  *)
(* the SPIFFS records /config.txt, /log.txt, /wall.txt and /landing.html,  *)
(* the handlers registered by startCaptivePortal(), the soft-AP WiFi event *)
(* callback and loop().  Strings are TLA+ strings; offsets are 0-based as  *)
(* in the Arduino String class.                                            *)
(***************************************************************************)
EXTENDS Integers, Sequences, FiniteSets, TLC

\* ---------------------------------------------------------------------
\* Program constants
\* ---------------------------------------------------------------------
AP_SSID_DEFAULT == "SetupWiFi"
SITE_NAME_DEFAULT == "funnyportal"
STA_RETRIES == 20
STA_RETRY_MS == 500
MAX_MESSAGE_LEN == 200
MAX_WALL_ENTRIES == 50
AUTH_USER == "admin"
AUTH_PASS == "esp32admin"

\* ---------------------------------------------------------------------
\* Arduino String primitives
\* ---------------------------------------------------------------------
MinOf(S) == CHOOSE x \in S : \A y \in S : x <= y
MaxOf(S) == CHOOSE x \in S : \A y \in S : x >= y

\* s[i], 0-based
CharAt(s, i) == SubSeq(s, i + 1, i + 1)

\* F applied to the value of x (x is evaluated once, however often F
\* looks at its argument)
ValueOf(F(_), x) == CHOOSE y \in {F(v) : v \in {x}} : TRUE

\* String::indexOf(needle, from): first offset >= from, or -1
IndexOfFrom(s, needle, from) ==
  ValueOf(LAMBDA v :
            LET hits == {i \in from..(Len(v) - Len(needle)) :
                           SubSeq(v, i + 1, i + Len(needle)) = needle}
            IN  IF hits = {} THEN -1 ELSE MinOf(hits),
          s)

IndexOf(s, needle) == IndexOfFrom(s, needle, 0)

\* String::lastIndexOf(needle): last offset, or -1
LastIndexOf(s, needle) ==
  ValueOf(LAMBDA v :
            LET hits == {i \in 0..(Len(v) - Len(needle)) :
                           SubSeq(v, i + 1, i + Len(needle)) = needle}
            IN  IF hits = {} THEN -1 ELSE MaxOf(hits),
          s)

\* String::substring(left, right): the bytes [left, right)
Substring(s, left, right) ==
  LET l == IF left > right THEN right ELSE left
      r0 == IF left > right THEN left ELSE right
      r == IF r0 > Len(s) THEN Len(s) ELSE r0
  IN  IF l >= Len(s) THEN "" ELSE SubSeq(s, l + 1, r)

SubstringFrom(s, left) == Substring(s, left, Len(s))

\* isspace() over the characters the model's inputs use
IsSpace(c) == c \in {" ", "\t", "\n", "\r", "\f"}

\* String::trim(): drop leading and trailing whitespace
Trim(s) ==
  ValueOf(LAMBDA v :
            LET keep == {i \in 1..Len(v) : ~IsSpace(SubSeq(v, i, i))}
            IN  IF keep = {} THEN "" ELSE SubSeq(v, MinOf(keep), MaxOf(keep)),
          s)

\* Print::println(s): the text followed by CR LF
Println(s) == s \o "\r\n"

\* Number of occurrences of the one-character string c in s
CountChar(s, c) ==
  ValueOf(LAMBDA v : Cardinality({i \in 1..Len(v) : SubSeq(v, i, i) = c}), s)

\* Stream::readStringUntil('\n') at offset pos: the text up to the
\* terminator (consumed, not returned), or the rest of the stream
ReadStringUntilNL(data, pos) ==
  LET nl == IndexOfFrom(data, "\n", pos)
  IN  IF nl < 0
        THEN [str |-> SubstringFrom(data, pos), pos |-> MaxOf({pos, Len(data)})]
        ELSE [str |-> Substring(data, pos, nl), pos |-> nl + 1]

\* ---------------------------------------------------------------------
\* SPIFFS records
\* ---------------------------------------------------------------------
NoFile == [exists |-> FALSE, data |-> ""]
FileOf(text) == [exists |-> TRUE, data |-> text]


\* A POST form field: absent, or present with a value
Missing == [has |-> FALSE, val |-> ""]
Field(v) == [has |-> TRUE, val |-> v]

\* The three settings held in g_apSsid, g_siteName, g_publicWall
DefaultSettings ==
  [apSsid |-> AP_SSID_DEFAULT, siteName |-> SITE_NAME_DEFAULT, publicWall |-> TRUE]

\* ---------------------------------------------------------------------
\* Helpers of the sketch
\* ---------------------------------------------------------------------

\* checkAdminAuth(): both fields must equal the configured pair
checkAdminAuthSwapped(user, pass) ==
  LET u == IF user.has THEN user.val ELSE ""
      p == IF pass.has THEN pass.val ELSE ""
  IN  u = AUTH_USER \/ p = AUTH_PASS

checkAdminAuth(user, pass) ==
  LET u == IF user.has THEN user.val ELSE ""
      p == IF pass.has THEN pass.val ELSE ""
  IN  u = AUTH_USER /\ p = AUTH_PASS

\* One pass of the key=value loop of readConfig()/loadSettings(): the line
\* at stream offset pos applied to the settings g, and the offset after it
ParseSettingsLine(data, pos, g) ==
  LET rd == ReadStringUntilNL(data, pos)
      line == Trim(rd.str)
      eq == IndexOf(line, "=")
      key == Substring(line, 0, eq)
      val == Trim(SubstringFrom(line, eq + 1))
  IN  [pos |-> rd.pos,
       g |-> IF eq > 0
               THEN IF key = "ap_ssid" /\ Len(val) > 0
                      THEN [g EXCEPT !.apSsid = val]
                    ELSE IF key = "site_name" /\ Len(val) > 0
                      THEN [g EXCEPT !.siteName = val]
                    ELSE IF key = "public_wall"
                      THEN [g EXCEPT !.publicWall = (val = "1" \/ val = "true")]
                    ELSE g
               ELSE g]

\* The loop itself: while (f.available()), from offset pos
RECURSIVE ParseSettings(_, _, _)
ParseSettings(data, pos, g) ==
  IF pos >= Len(data) THEN g
  ELSE CHOOSE out \in {ParseSettings(data, nx.pos, nx.g) :
                         nx \in {ParseSettingsLine(data, pos, g)}} : TRUE

\* readConfig() without ssid.trim(): the raw first line decides
readConfigUntrimmed(cfg, openOk, g) ==
  IF ~cfg.exists \/ ~openOk
    THEN [ok |-> FALSE, ssid |-> "", password |-> "", g |-> g]
    ELSE
      LET r1 == ReadStringUntilNL(cfg.data, 0)
          r2 == ReadStringUntilNL(cfg.data, r1.pos)
      IN  [ok |-> Len(r1.str) > 0, ssid |-> r1.str, password |-> r2.str,
           g |-> ParseSettings(cfg.data, r2.pos, g)]

\* readConfig(ssid, password): ok iff the trimmed first line is non-empty;
\* the settings lines are parsed into the globals as a side effect
readConfig(cfg, openOk, g) ==
  IF ~cfg.exists \/ ~openOk
    THEN [ok |-> FALSE, ssid |-> "", password |-> "", g |-> g]
    ELSE
      LET r1 == ReadStringUntilNL(cfg.data, 0)
          r2 == ReadStringUntilNL(cfg.data, r1.pos)
          ssid == Trim(r1.str)
          password == Trim(r2.str)
      IN  [ok |-> Len(ssid) > 0, ssid |-> ssid, password |-> password,
           g |-> ParseSettings(cfg.data, r2.pos, g)]

\* loadSettings(): skip the two credential lines, parse the rest
loadSettings(cfg, openOk, g) ==
  IF ~cfg.exists \/ ~openOk THEN g
  ELSE
    LET r1 == ReadStringUntilNL(cfg.data, 0)
        r2 == ReadStringUntilNL(cfg.data, r1.pos)
    IN  ParseSettings(cfg.data, r2.pos, g)

\* The five lines /save-settings and /save write to /config.txt
ConfigText(ssid, password, g) ==
  Println(ssid) \o Println(password)
    \o Println("ap_ssid=" \o g.apSsid)
    \o Println("site_name=" \o g.siteName)
    \o Println("public_wall=" \o (IF g.publicWall THEN "1" ELSE "0"))

\* readLogFile()
readLogFile(log, openOk) ==
  IF ~log.exists THEN "(no log entries yet)"
  ELSE IF ~openOk THEN "(failed to read log)"
  ELSE IF Len(log.data) = 0 THEN "(no log entries yet)"
  ELSE log.data

\* appendLog(message) opening the record with FILE_WRITE, which truncates
appendLogTruncating(log, openOk, message) ==
  IF openOk THEN FileOf(Println(message)) ELSE log

\* appendLog(message): FILE_APPEND creates the record when absent
appendLog(log, openOk, message) ==
  IF openOk THEN FileOf(log.data \o Println(message)) ELSE log

\* readWallFile()
readWallFile(w, openOk) ==
  IF ~w.exists THEN "" ELSE IF ~openOk THEN "" ELSE w.data

\* Offset of the n-th '\n' of s (n >= 1), or -1
NthNewline(s, n) ==
  ValueOf(LAMBDA v :
            LET nls == {i \in 0..(Len(v) - 1) : CharAt(v, i) = "\n"}
                upto == {i \in nls : Cardinality({j \in nls : j <= i}) = n}
            IN  IF upto = {} THEN -1 ELSE MinOf(upto),
          s)

\* appendToWall(): the content written back for prior content `content`
WallContentAfter(content, timestamp, msg) ==
  LET newLine == timestamp \o "|" \o msg \o "\n"
      lineCount0 == CountChar(content, "\n")
                      + (IF Len(content) > 0 /\ CharAt(content, Len(content) - 1) # "\n"
                           THEN 1 ELSE 0)
      joined == newLine \o content
      lineCount == lineCount0 + 1
      lastNl == NthNewline(joined, MAX_WALL_ENTRIES)
  IN  IF lineCount > MAX_WALL_ENTRIES /\ lastNl >= 0
        THEN Substring(joined, 0, lastNl + 1)
        ELSE joined

\* appendToWall(timestamp, msg) on the record: read, prepend, truncate, write
appendToWall(w, readOk, writeOk, timestamp, msg) ==
  IF writeOk
    THEN FileOf(WallContentAfter(readWallFile(w, readOk), timestamp, msg))
    ELSE w

\* The mapping without the branch for the double quote
EscapeCharNoQuote(c) ==
  IF c = "&" THEN "&amp;"
  ELSE IF c = "<" THEN "&lt;"
  ELSE IF c = ">" THEN "&gt;"
  ELSE c

\* The entity htmlEscape() emits for one character
EscapeChar(c) ==
  IF c = "&" THEN "&amp;"
  ELSE IF c = "<" THEN "&lt;"
  ELSE IF c = ">" THEN "&gt;"
  ELSE IF c = "\"" THEN "&quot;"
  ELSE c

\* htmlEscape(): one pass, each input character mapped once, in order
\* (evaluated by halves to keep the evaluation shallow)
RECURSIVE htmlEscape(_)
htmlEscape(s) ==
  IF Len(s) = 0 THEN ""
  ELSE IF Len(s) = 1 THEN EscapeChar(s)
  ELSE htmlEscape(SubSeq(s, 1, Len(s) \div 2))
         \o htmlEscape(SubSeq(s, (Len(s) \div 2) + 1, Len(s)))

\* String::replace(find, with): every occurrence, left to right
RECURSIVE StrReplace(_, _, _)
StrReplace(s, find, with) ==
  IF Len(find) = 0 THEN s
  ELSE
    LET i == IndexOf(s, find)
    IN  IF i < 0 THEN s
        ELSE Substring(s, 0, i) \o with
               \o StrReplace(SubstringFrom(s, i + Len(find)), find, with)

\* "%02d"
TwoDigits(n) ==
  SubSeq("0123456789", (n \div 10) + 1, (n \div 10) + 1)
    \o SubSeq("0123456789", (n % 10) + 1, (n % 10) + 1)

\* getTimestamp() for millis() = ms
getTimestamp(ms) ==
  LET s == ms \div 1000
      m == s \div 60
      h == m \div 60
  IN  TwoDigits(h % 24) \o ":" \o TwoDigits(m % 60) \o ":" \o TwoDigits(s % 60)


\* ---------------------------------------------------------------------
\* Pages.  The static markup of the sketch (CSS, ASCII art, style
\* attributes) is abbreviated; every dynamic part is kept.
\* ---------------------------------------------------------------------
LANDING_PAGE ==
  "\n<!DOCTYPE html>\n<html lang=\"en\">\n<head>\n  <title>%SITE_NAME%</title>\n</head>\n"
    \o "<body>\n  %MESSAGE_SECTION%\n</body>\n</html>\n"

authInputs ==
  "<input type=\"hidden\" name=\"user\" value=\"" \o AUTH_USER \o "\">"
    \o "<input type=\"hidden\" name=\"pass\" value=\"" \o AUTH_PASS \o "\">"

\* The wall loop of buildMessageSection(), from offset start
RECURSIVE WallEntriesHtml(_, _)
WallEntriesHtml(w, start) ==
  IF start >= Len(w) THEN ""
  ELSE
    LET nl0 == IndexOfFrom(w, "\n", start)
        nl == IF nl0 < 0 THEN Len(w) ELSE nl0
        line == Substring(w, start, nl)
        pipe == IndexOf(line, "|")
        ts == IF pipe > 0 THEN Substring(line, 0, pipe) ELSE ""
        msg == IF pipe > 0 THEN SubstringFrom(line, pipe + 1) ELSE line
        item == IF Len(line) = 0 THEN ""
                ELSE "<div><span class=\"dim\">[" \o htmlEscape(ts) \o "]</span> "
                       \o htmlEscape(msg) \o "</div>"
    IN  item \o WallEntriesHtml(w, nl + 1)

\* buildMessageSection() without the g_publicWall test
buildMessageSectionAlways(g, w, wallOpenOk) ==
  LET form == "<div class=\"msg-section\">"
                \o "<form method=\"POST\" action=\"/submit-message\">"
                \o "<input type=\"text\" name=\"msg\" maxlength=\"200\">"
                \o "<button type=\"submit\">SEND</button></form>"
      content == readWallFile(w, wallOpenOk)
      list == IF Len(content) > 0
                THEN "<div class=\"wall\">" \o WallEntriesHtml(content, 0) \o "</div>"
                ELSE ""
  IN  form \o list \o "</div>"

\* buildMessageSection()
buildMessageSection(g, w, wallOpenOk) ==
  LET form == "<div class=\"msg-section\">"
                \o "<form method=\"POST\" action=\"/submit-message\">"
                \o "<input type=\"text\" name=\"msg\" maxlength=\"200\">"
                \o "<button type=\"submit\">SEND</button></form>"
      content == readWallFile(w, wallOpenOk)
      list == IF g.publicWall /\ Len(content) > 0
                THEN "<div class=\"wall\">" \o WallEntriesHtml(content, 0) \o "</div>"
                ELSE ""
  IN  form \o list \o "</div>"

\* getLandingPageHtml()
getLandingPageHtml(land, landOpenOk, g, w, wallOpenOk) ==
  LET custom == IF land.exists /\ landOpenOk
                     /\ Len(land.data) > 0 /\ Len(land.data) < 30000
                  THEN land.data ELSE ""
      html0 == IF Len(custom) = 0 THEN LANDING_PAGE ELSE custom
      html1 == StrReplace(html0, "%SITE_NAME%", htmlEscape(g.siteName))
      msgSection == buildMessageSection(g, w, wallOpenOk)
      html2 == StrReplace(html1, "%MESSAGE_SECTION%", msgSection)
      bodyEnd == LastIndexOf(html2, "</body>")
  IN  IF bodyEnd >= 0 /\ IndexOf(html2, msgSection) < 0
        THEN Substring(html2, 0, bodyEnd) \o msgSection \o SubstringFrom(html2, bodyEnd)
        ELSE html2

\* ---------------------------------------------------------------------
\* Responses
\* ---------------------------------------------------------------------
Send(code, ctype, body) == [code |-> code, ctype |-> ctype, body |-> body]
Redirect(location) == [code |-> 302, ctype |-> "", body |-> location]
NoResponse == [code |-> 0, ctype |-> "", body |-> ""]
Forbidden == Send(403, "text/plain", "Forbidden.")
PortalRedirect == "http://192.168.4.1/portal"

\* serveLoginPage()
LoginPage(showError) ==
  Send(200, "text/html",
       "<h1>// ADMIN LOGIN</h1>"
         \o (IF showError THEN "<p class=\"err\">// INVALID CREDENTIALS</p>" ELSE "")
         \o "<form method=\"POST\" action=\"/admin\"></form>")

\* The markup serveAdminDashboard() builds
DashboardHtml(g, hasCreds, currentSSID) ==
  "<h1>// ADMIN DASHBOARD</h1>"
    \o "<div class=\"info\">AP SSID: <span>" \o htmlEscape(g.apSsid) \o "</span></div>"
    \o "<div class=\"info\">Public wall: <span>"
    \o (IF g.publicWall THEN "ON" ELSE "OFF") \o "</span></div>"
    \o "<form method=\"POST\" action=\"/save-settings\">" \o authInputs
    \o "<input type=\"text\" name=\"ap_ssid\" value=\"" \o htmlEscape(g.apSsid) \o "\">"
    \o "<input type=\"text\" name=\"site_name\" value=\"" \o htmlEscape(g.siteName) \o "\">"
    \o "<input type=\"checkbox\" name=\"public_wall\" value=\"1\""
    \o (IF g.publicWall THEN " checked" ELSE "") \o "></form>"
    \o "<form method=\"POST\" action=\"/save\">" \o authInputs
    \o "<input type=\"text\" name=\"ssid\""
    \o (IF hasCreds THEN " placeholder=\"" \o htmlEscape(currentSSID) \o "\"" ELSE "")
    \o "><input type=\"password\" name=\"wifipass\"></form>"
    \o "<form method=\"POST\" action=\"/clearlog\">" \o authInputs \o "</form>"
    \o (IF g.publicWall
          THEN "<form method=\"POST\" action=\"/clearwall\">" \o authInputs \o "</form>"
          ELSE "")
    \o "<form method=\"POST\" action=\"/reboot\">" \o authInputs \o "</form>"

SettingsSavedPage ==
  Send(200, "text/html", "<html><body><div><pre>SETTINGS SAVED</pre></div></body></html>")
LandingSavedPage ==
  Send(200, "text/html", "<html><body><div><pre>SAVED</pre></div></body></html>")
LandingResetPage ==
  Send(200, "text/html", "<html><body><div><pre>RESET TO DEFAULT</pre></div></body></html>")
CredentialsSavedPage ==
  Send(200, "text/html",
       "<html><body><div><pre>CREDENTIALS SAVED\n\nREBOOTING...</pre></div></body></html>")
RebootingPage ==
  Send(200, "text/html", "<html><body><div><pre>REBOOTING...</pre></div></body></html>")


\* ---------------------------------------------------------------------
\* Request handlers.  st holds the four records and the settings:
\* [cfg, log, wall, landing, g].  A handler yields the same fields after
\* it ran, the response it sent and whether it ended in ESP.restart().
\* io[k] is the outcome of the k-th SPIFFS.open() the handler can make.
\* ---------------------------------------------------------------------
Reply(st, resp) ==
  [cfg |-> st.cfg, log |-> st.log, wall |-> st.wall, landing |-> st.landing,
   g |-> st.g, resp |-> resp, restart |-> FALSE]

ReplyAndRestart(st, resp) ==
  [cfg |-> st.cfg, log |-> st.log, wall |-> st.wall, landing |-> st.landing,
   g |-> st.g, resp |-> resp, restart |-> TRUE]

FieldOr(f, dflt) == IF f.has THEN f.val ELSE dflt

\* serveAdminDashboard(): re-reads /config.txt into the globals
serveAdminDashboard(st, openA, openB) ==
  LET rc == readConfig(st.cfg, openA, st.g)
      g2 == loadSettings(st.cfg, openB, rc.g)
  IN  Reply([st EXCEPT !.g = g2],
            Send(200, "text/html", DashboardHtml(g2, rc.ok, rc.ssid)))

\* serveLogViewer()
serveLogViewer(st, openOk) ==
  LET c0 == readLogFile(st.log, openOk)
      c1 == StrReplace(c0, "&", "&amp;")
      c2 == StrReplace(c1, "<", "&lt;")
      c3 == StrReplace(c2, ">", "&gt;")
  IN  Reply(st, Send(200, "text/html",
                     "<h1>// CONNECTION LOG</h1><div class=\"logbox\">" \o c3 \o "</div>"))

\* GET on a captive-portal probe path
HandleProbe(st) == Reply(st, Redirect(PortalRedirect))

\* GET /portal
HandlePortal(st, io) ==
  Reply(st, Send(200, "text/html",
                 getLandingPageHtml(st.landing, io[1], st.g, st.wall, io[2])))

\* onNotFound
HandleNotFound(st, io) ==
  Reply(st, Send(200, "text/html",
                 getLandingPageHtml(st.landing, io[1], st.g, st.wall, io[2])))

\* The text /submit-message stores for a msg field, "" when it is rejected
SubmittedText(msg) ==
  IF ~msg.has THEN ""
  ELSE LET m == Trim(msg.val)
       IN  IF Len(m) > MAX_MESSAGE_LEN THEN Substring(m, 0, MAX_MESSAGE_LEN) ELSE m

\* POST /submit-message testing the length of msg before trimming it
HandleSubmitMessageUntrimmed(st, msg, ms, clientIP, io) ==
  IF ~msg.has THEN Reply(st, Redirect("/portal"))
  ELSE IF Len(msg.val) = 0 THEN Reply(st, Redirect("/portal"))
  ELSE
    LET m == SubmittedText(msg)
        ts == getTimestamp(ms)
    IN  IF st.g.publicWall
          THEN Reply([st EXCEPT
                        !.wall = appendToWall(st.wall, io[1], io[2], ts, m),
                        !.log = appendLog(st.log, io[3],
                                  "WALL: " \o clientIP \o " [" \o ts \o "] " \o m)],
                     Redirect("/portal"))
          ELSE Reply([st EXCEPT
                        !.log = appendLog(st.log, io[1],
                                  "MSG: " \o clientIP \o " [" \o ts \o "] " \o m)],
                     Redirect("/portal"))

\* POST /submit-message
HandleSubmitMessage(st, msg, ms, clientIP, io) ==
  IF ~msg.has THEN Reply(st, Redirect("/portal"))
  ELSE IF Len(Trim(msg.val)) = 0 THEN Reply(st, Redirect("/portal"))
  ELSE
    LET m == SubmittedText(msg)
        ts == getTimestamp(ms)
    IN  IF st.g.publicWall
          THEN Reply([st EXCEPT
                        !.wall = appendToWall(st.wall, io[1], io[2], ts, m),
                        !.log = appendLog(st.log, io[3],
                                  "WALL: " \o clientIP \o " [" \o ts \o "] " \o m)],
                     Redirect("/portal"))
          ELSE Reply([st EXCEPT
                        !.log = appendLog(st.log, io[1],
                                  "MSG: " \o clientIP \o " [" \o ts \o "] " \o m)],
                     Redirect("/portal"))

\* GET /admin
HandleAdminGet(st) == Reply(st, LoginPage(FALSE))

\* POST /admin
HandleAdminPost(st, user, pass, io) ==
  IF checkAdminAuth(user, pass)
    THEN serveAdminDashboard(st, io[1], io[2])
    ELSE Reply(st, LoginPage(TRUE))

\* POST /log telling which field was wrong
HandleLogExplains(st, user, pass, io) ==
  IF FieldOr(user, "") # AUTH_USER THEN Reply(st, Send(403, "text/plain", "Unknown user."))
  ELSE IF FieldOr(pass, "") # AUTH_PASS
    THEN Reply(st, Send(403, "text/plain", "Wrong password."))
  ELSE serveLogViewer(st, io[1])

\* POST /log
HandleLog(st, user, pass, io) ==
  IF ~checkAdminAuth(user, pass) THEN Reply(st, Forbidden)
  ELSE serveLogViewer(st, io[1])

\* POST /exportlog
HandleExportLog(st, user, pass, io) ==
  IF ~checkAdminAuth(user, pass) THEN Reply(st, Forbidden)
  ELSE IF st.log.exists
    THEN Reply(st, Send(200, "text/plain", IF io[1] THEN st.log.data ELSE ""))
    ELSE Reply(st, Send(200, "text/plain", "(no log entries yet)"))

\* POST /clearlog that removes /log.txt and appends nothing
HandleClearLogSilent(st, user, pass, io) ==
  IF ~checkAdminAuth(user, pass) THEN Reply(st, Forbidden)
  ELSE serveAdminDashboard([st EXCEPT !.log = NoFile], io[2], io[3])

\* POST /clearlog
HandleClearLog(st, user, pass, io) ==
  IF ~checkAdminAuth(user, pass) THEN Reply(st, Forbidden)
  ELSE serveAdminDashboard(
         [st EXCEPT !.log = appendLog(NoFile, io[1], "LOG CLEARED BY ADMIN")],
         io[2], io[3])

\* POST /clearwall that starts the log afresh as well
HandleClearWallAndLog(st, user, pass, io) ==
  IF ~checkAdminAuth(user, pass) THEN Reply(st, Forbidden)
  ELSE serveAdminDashboard(
         [st EXCEPT !.wall = NoFile,
                    !.log = appendLog(NoFile, io[1], "WALL CLEARED BY ADMIN")],
         io[2], io[3])

\* POST /clearwall
HandleClearWall(st, user, pass, io) ==
  IF ~checkAdminAuth(user, pass) THEN Reply(st, Forbidden)
  ELSE serveAdminDashboard(
         [st EXCEPT !.wall = NoFile,
                    !.log = appendLog(st.log, io[1], "WALL CLEARED BY ADMIN")],
         io[2], io[3])

\* POST /save-settings
HandleSaveSettings(st, user, pass, ap_ssid, site_name, public_wall, io) ==
  IF ~checkAdminAuth(user, pass) THEN Reply(st, Forbidden)
  ELSE
    LET apT == Trim(FieldOr(ap_ssid, ""))
        siteT == Trim(FieldOr(site_name, ""))
        g1 == [apSsid |-> IF Len(apT) = 0 THEN AP_SSID_DEFAULT ELSE apT,
               siteName |-> IF Len(siteT) = 0 THEN SITE_NAME_DEFAULT ELSE siteT,
               publicWall |-> public_wall]
        rc == readConfig(st.cfg, io[1], g1)
        g2 == rc.g
        text == ConfigText(IF rc.ok THEN rc.ssid ELSE "",
                           IF rc.ok THEN rc.password ELSE "", g2)
    IN  Reply([st EXCEPT !.g = g2,
                         !.cfg = IF io[2] THEN FileOf(text) ELSE st.cfg],
              SettingsSavedPage)

\* POST /editor
HandleEditor(st, user, pass, io) ==
  IF ~checkAdminAuth(user, pass) THEN Reply(st, Forbidden)
  ELSE
    LET stored == IF st.landing.exists /\ io[1] THEN st.landing.data ELSE ""
        content == IF Len(stored) = 0 THEN LANDING_PAGE ELSE stored
    IN  Reply(st, Send(200, "text/html",
                       "<h1>// LANDING PAGE EDITOR</h1>"
                         \o "<form method=\"POST\" action=\"/save-landing\">" \o authInputs
                         \o "<textarea name=\"html\" rows=\"20\">" \o htmlEscape(content)
                         \o "</textarea></form>"))

\* POST /save-landing
HandleSaveLanding(st, user, pass, html, io) ==
  IF ~checkAdminAuth(user, pass) THEN Reply(st, Forbidden)
  ELSE IF ~html.has THEN Reply(st, Send(400, "text/plain", "Missing html"))
  ELSE IF Len(html.val) > 25000
    THEN Reply(st, Send(400, "text/plain", "HTML too large (max 25KB)"))
  ELSE IF IndexOf(html.val, "<html") < 0 /\ IndexOf(html.val, "<HTML") < 0
    THEN Reply(st, Send(400, "text/plain", "Invalid HTML"))
  ELSE IF io[1]
    THEN Reply([st EXCEPT !.landing = FileOf(html.val),
                          !.log = appendLog(st.log, io[2],
                                            "LANDING PAGE UPDATED BY ADMIN")],
               LandingSavedPage)
    ELSE Reply(st, LandingSavedPage)

\* POST /reset-landing
HandleResetLanding(st, user, pass, io) ==
  IF ~checkAdminAuth(user, pass) THEN Reply(st, Forbidden)
  ELSE Reply([st EXCEPT !.landing = NoFile,
                        !.log = appendLog(st.log, io[1], "LANDING PAGE RESET BY ADMIN")],
             LandingResetPage)

\* POST /save testing the ssid only after /config.txt was written
HandleSaveWritesFirst(st, user, pass, ssid, wifipass, io) ==
  IF ~checkAdminAuth(user, pass) THEN Reply(st, Forbidden)
  ELSE
    LET newSSID == Trim(FieldOr(ssid, ""))
        newWifiPass == Trim(FieldOr(wifipass, ""))
        rc == readConfig(st.cfg, io[1], st.g)
        written == [st EXCEPT !.g = rc.g,
                              !.cfg = FileOf(ConfigText(newSSID, newWifiPass, rc.g)),
                              !.log = appendLog(st.log, io[3],
                                                "CONFIG CHANGED: SSID=" \o newSSID)]
    IN  IF ~io[2]
          THEN Reply([st EXCEPT !.g = rc.g], Send(500, "text/plain", "File write error."))
        ELSE IF Len(newSSID) = 0
          THEN Reply(written, Send(400, "text/plain", "SSID cannot be empty."))
        ELSE ReplyAndRestart(written, CredentialsSavedPage)

\* POST /save writing the settings as they were in memory before
\* readConfig() was called
HandleSaveKeepsMemory(st, user, pass, ssid, wifipass, io) ==
  IF ~checkAdminAuth(user, pass) THEN Reply(st, Forbidden)
  ELSE
    LET newSSID == Trim(FieldOr(ssid, ""))
        newWifiPass == Trim(FieldOr(wifipass, ""))
        rc == readConfig(st.cfg, io[1], st.g)
    IN  IF Len(newSSID) = 0
          THEN Reply(st, Send(400, "text/plain", "SSID cannot be empty."))
        ELSE IF io[2]
          THEN ReplyAndRestart(
                 [st EXCEPT !.g = rc.g,
                            !.cfg = FileOf(ConfigText(newSSID, newWifiPass, st.g)),
                            !.log = appendLog(st.log, io[3],
                                              "CONFIG CHANGED: SSID=" \o newSSID)],
                 CredentialsSavedPage)
          ELSE Reply([st EXCEPT !.g = rc.g],
                     Send(500, "text/plain", "File write error."))

\* POST /save
HandleSave(st, user, pass, ssid, wifipass, io) ==
  IF ~checkAdminAuth(user, pass) THEN Reply(st, Forbidden)
  ELSE
    LET newSSID == Trim(FieldOr(ssid, ""))
        newWifiPass == Trim(FieldOr(wifipass, ""))
        rc == readConfig(st.cfg, io[1], st.g)
    IN  IF Len(newSSID) = 0
          THEN Reply(st, Send(400, "text/plain", "SSID cannot be empty."))
        ELSE IF io[2]
          THEN ReplyAndRestart(
                 [st EXCEPT !.g = rc.g,
                            !.cfg = FileOf(ConfigText(newSSID, newWifiPass, rc.g)),
                            !.log = appendLog(st.log, io[3],
                                              "CONFIG CHANGED: SSID=" \o newSSID)],
                 CredentialsSavedPage)
          ELSE Reply([st EXCEPT !.g = rc.g],
                     Send(500, "text/plain", "File write error."))

\* POST /reboot without the checkAdminAuth() test
HandleRebootOpen(st, user, pass) == ReplyAndRestart(st, RebootingPage)

\* POST /reboot
HandleReboot(st, user, pass) ==
  IF ~checkAdminAuth(user, pass) THEN Reply(st, Forbidden)
  ELSE ReplyAndRestart(st, RebootingPage)


\* ---------------------------------------------------------------------
\* Bounds and input sets of the model
\* ---------------------------------------------------------------------
\* Requests and WiFi events handled in one run
MaxSteps == 2
\* SPIFFS.open() calls that fail in one run
MaxFaults == 1
\* /submit-message requests of one run of the wall specification
MaxWallAppends == 3
\* Requests of one run of the stealth specification
MaxStealthSteps == 5

Users == {Missing, Field(AUTH_USER), Field("root")}
Passes == {Missing, Field(AUTH_PASS), Field("admin")}
\* The (user, pass) pairs the requests of a run carry
Logins == {<<Field(AUTH_USER), Field(AUTH_PASS)>>, <<Missing, Field(AUTH_PASS)>>,
           <<Field(AUTH_USER), Field("admin")>>, <<Field("root"), Missing>>}
Msgs == {Missing, Field("  "), Field(" hi "), Field("a<b|c"), Field("x\ny")}
Ssids == {Missing, Field(" "), Field(" Lab ")}
WifiPasses == {Missing, Field("pw 1")}
ApSsids == {Missing, Field(" "), Field("FreeWiFi")}
SiteNames == {Missing, Field("cafe")}
Htmls == {Missing, Field("hello"), Field("<html><body>hi</body></html>"),
          Field("<HTML><BODY>%MESSAGE_SECTION%</BODY></HTML>")}
Uptimes == {90061000}
ClientIps == {"192.168.4.2"}
StaIps == {"10.0.0.7"}
Macs == {"AA:BB:CC:00:11:22"}
WiFiEvents == {"AP_STACONNECTED", "AP_STADISCONNECTED", "AP_START"}
RadioStatuses == {"WL_CONNECTED", "WL_DISCONNECTED"}
ProbePaths == {"/generate_204", "/gen_204", "/hotspot-detect.html", "/connecttest.txt",
               "/ncsi.txt", "/redirect", "/success.txt"}
AllOk == [k \in 1..3 |-> TRUE]
Failures(io) == Cardinality({k \in 1..3 : ~io[k]})

\* /config.txt as earlier runs of the sketch leave it
InitConfigs ==
  {NoFile,
   FileOf(ConfigText("HomeNet", "secret", DefaultSettings)),
   FileOf(ConfigText("", "", [apSsid |-> "FreeWiFi", siteName |-> "cafe",
                               publicWall |-> FALSE]))}

\* ---------------------------------------------------------------------
\* State
\* ---------------------------------------------------------------------
VARIABLES
  pc,            \* where setup() is: mount, readcfg, connect, check; then
                 \* station or portal (setup returned), or halted
  config, logf, wall, landing,   \* the four SPIFFS records
  g,             \* g_apSsid, g_siteName, g_publicWall
  apMode,        \* the global apMode
  wifiMode,      \* WiFi.mode(): off, sta, ap
  join,          \* the WiFi.begin() call of this boot
  retries,       \* the local of setup()
  statusReads,   \* WiFi.status() calls made by setup()
  waitMs,        \* time spent in delay(STA_RETRY_MS)
  everConnected, \* some WiFi.status() of this boot returned WL_CONNECTED
  cfgOpened,     \* setup()'s open of /config.txt succeeded
  bootOutcome,   \* how setup() ended
  serverBegun,   \* routes registered and server.begin() called
  dnsStarted,    \* dnsServer.start() called
  dnsServiced,   \* the main loop called dnsServer.processNextRequest()
  eventHooked,   \* WiFi.onEvent(onWiFiEvent) called
  response,      \* the last response sent
  steps,         \* requests and events handled so far
  faults,        \* SPIFFS.open() calls that failed so far
  hist,          \* the lines handed to appendToWall(), latest first
  tasks,         \* where the server task and the WiFi event task are inside
                 \* appendToWall() and appendLog()
  escape         \* a string, and what htmlEscape() made of it

vars == <<pc, config, logf, wall, landing, g, apMode, wifiMode, join, retries,
          statusReads, waitMs, everConnected, cfgOpened, bootOutcome, serverBegun,
          dnsStarted, dnsServiced, eventHooked, response, steps, faults, hist,
          tasks, escape>>

stores == <<config, logf, wall, landing>>
setupVars == <<join, retries, statusReads, waitMs, everConnected, cfgOpened>>
portalVars == <<apMode, wifiMode, serverBegun, dnsStarted, eventHooked>>

NoJoin == [issued |-> FALSE, ssid |-> "", pass |-> ""]

\* The outcomes of the (at most n) opens of one handler run
IOs(n) ==
  {io \in [1..3 -> BOOLEAN] :
     /\ \A k \in 1..3 : k > n => io[k]
     /\ faults + Failures(io) <= MaxFaults}

\* htmlEscape() not called
NoEscape == [input |-> "", once |-> "", twice |-> "", passes |-> 0]

\* Neither task is inside appendToWall() or appendLog()
IdleTasks ==
  [handler |-> [at |-> "idle", content |-> "", line |-> ""],
   event |-> [at |-> "idle", line |-> ""]]

\* The records and settings as the handlers see them
Cur == [cfg |-> config, log |-> logf, wall |-> wall, landing |-> landing, g |-> g]

\* RAM after reset, before setup()
PowerOn ==
  /\ pc = "mount"
  /\ g = DefaultSettings
  /\ apMode = FALSE
  /\ wifiMode = "off"
  /\ join = NoJoin
  /\ retries = 0
  /\ statusReads = 0
  /\ waitMs = 0
  /\ everConnected = FALSE
  /\ cfgOpened = FALSE
  /\ bootOutcome = "booting"
  /\ serverBegun = FALSE
  /\ dnsStarted = FALSE
  /\ dnsServiced = FALSE
  /\ eventHooked = FALSE

Init ==
  /\ PowerOn
  /\ config \in InitConfigs
  /\ logf = NoFile
  /\ wall = NoFile
  /\ landing = NoFile
  /\ response = NoResponse
  /\ steps = 0
  /\ faults = 0
  /\ hist = <<>>
  /\ tasks = IdleTasks
  /\ escape = NoEscape

\* ---------------------------------------------------------------------
\* setup() and the main loop
\* ---------------------------------------------------------------------

\* startCaptivePortal(), entered with the settings gIn
startCaptivePortal(gIn, openOk) ==
  /\ apMode' = TRUE
  /\ g' = loadSettings(config, openOk, gIn)
  /\ wifiMode' = "ap"
  /\ eventHooked' = TRUE
  /\ dnsStarted' = TRUE
  /\ serverBegun' = TRUE
  /\ pc' = "portal"

\* setup() returns: its local and the observations of its loop end
SetupReturns ==
  /\ retries' = 0
  /\ statusReads' = 0
  /\ waitMs' = 0
  /\ everConnected' = FALSE

\* SPIFFS.begin(true) whose failure is reported and setup() goes on
SetupMountGoesOn ==
  /\ pc = "mount"
  /\ \E mounted \in BOOLEAN :
       /\ pc' = "readcfg"
       /\ bootOutcome' = IF mounted THEN bootOutcome ELSE "halted"
  /\ UNCHANGED <<stores, g, portalVars, setupVars, dnsServiced, response, steps, faults,
                 hist, tasks, escape>>

\* SPIFFS.begin(true): mounted, or the halt loop
SetupMount ==
  /\ pc = "mount"
  /\ \E mounted \in BOOLEAN :
       /\ pc' = IF mounted THEN "readcfg" ELSE "halted"
       /\ bootOutcome' = IF mounted THEN bootOutcome ELSE "halted"
  /\ UNCHANGED <<stores, g, portalVars, setupVars, dnsServiced, response, steps, faults,
                 hist, tasks, escape>>

\* readConfig(), then WiFi.mode(WIFI_STA) and WiFi.begin(), or the portal
SetupReadConfig ==
  /\ pc = "readcfg"
  /\ \E io \in IOs(2) :
       \E rc \in {readConfig(config, io[1], g)} :
         /\ ~config.exists => io = AllOk
         /\ rc.ok => io[2]
         /\ cfgOpened' = (config.exists /\ io[1])
         /\ faults' = faults + Failures(io)
         /\ IF rc.ok
              THEN /\ g' = rc.g
                   /\ wifiMode' = "sta"
                   /\ join' = [issued |-> TRUE, ssid |-> rc.ssid, pass |-> rc.password]
                   /\ pc' = "connect"
                   /\ UNCHANGED <<apMode, serverBegun, dnsStarted, eventHooked,
                                  bootOutcome>>
              ELSE /\ startCaptivePortal(rc.g, io[2])
                   /\ bootOutcome' = "nocreds"
                   /\ UNCHANGED join
  /\ UNCHANGED <<stores, retries, statusReads, waitMs, everConnected, dnsServiced,
                 response, steps, hist, tasks, escape>>

\* The while loop with the test retries <= STA_RETRIES
SetupPollOffByOne ==
  /\ pc = "connect"
  /\ \E status \in RadioStatuses :
       /\ statusReads' = statusReads + 1
       /\ everConnected' = (everConnected \/ status = "WL_CONNECTED")
       /\ IF status # "WL_CONNECTED" /\ retries <= STA_RETRIES
            THEN /\ waitMs' = waitMs + STA_RETRY_MS
                 /\ retries' = retries + 1
                 /\ pc' = "connect"
            ELSE /\ pc' = "check"
                 /\ UNCHANGED <<waitMs, retries>>
  /\ UNCHANGED <<stores, g, portalVars, join, cfgOpened, bootOutcome, dnsServiced,
                 response, steps, faults, hist, tasks, escape>>

\* One evaluation of the while condition, and the loop body when it holds
SetupPoll ==
  /\ pc = "connect"
  /\ \E status \in RadioStatuses :
       /\ statusReads' = statusReads + 1
       /\ everConnected' = (everConnected \/ status = "WL_CONNECTED")
       /\ IF status # "WL_CONNECTED" /\ retries < STA_RETRIES
            THEN /\ waitMs' = waitMs + STA_RETRY_MS
                 /\ retries' = retries + 1
                 /\ pc' = "connect"
            ELSE /\ pc' = "check"
                 /\ UNCHANGED <<waitMs, retries>>
  /\ UNCHANGED <<stores, g, portalVars, join, cfgOpened, bootOutcome, dnsServiced,
                 response, steps, faults, hist, tasks, escape>>

\* The status test after the loop, joining again instead of falling back
SetupCheckRejoins ==
  /\ pc = "check"
  /\ \E status \in RadioStatuses, ip \in StaIps, io \in IOs(1) :
       /\ faults' = faults + Failures(io)
       /\ IF status = "WL_CONNECTED"
            THEN /\ logf' = appendLog(logf, io[1],
                                      "STA CONNECTED: " \o join.ssid \o " IP=" \o ip)
                 /\ pc' = "station"
                 /\ bootOutcome' = "station"
                 /\ SetupReturns
            ELSE /\ pc' = "connect"
                 /\ retries' = 0
                 /\ waitMs' = 0
                 /\ statusReads' = 0
                 /\ UNCHANGED <<logf, bootOutcome, everConnected>>
  /\ UNCHANGED <<config, wall, landing, g, portalVars, join, cfgOpened, dnsServiced,
                 response, steps, hist, tasks, escape>>

\* The status test after the loop, logging the fallback as well
SetupCheckLogsFallback ==
  /\ pc = "check"
  /\ \E status \in RadioStatuses, ip \in StaIps, io \in IOs(1) :
       /\ faults' = faults + Failures(io)
       /\ IF status = "WL_CONNECTED"
            THEN /\ logf' = appendLog(logf, io[1],
                                      "STA CONNECTED: " \o join.ssid \o " IP=" \o ip)
                 /\ pc' = "station"
                 /\ bootOutcome' = "station"
                 /\ UNCHANGED <<g, portalVars>>
            ELSE /\ startCaptivePortal(g, io[1])
                 /\ bootOutcome' = IF everConnected THEN "dropped" ELSE "exhausted"
                 /\ logf' = appendLog(logf, TRUE, "STA FAILED: " \o join.ssid)
  /\ SetupReturns
  /\ UNCHANGED <<config, wall, landing, join, cfgOpened, dnsServiced, response, steps,
                 hist, tasks, escape>>

\* The status test after the loop: log and return, or fall back
SetupCheck ==
  /\ pc = "check"
  /\ \E status \in RadioStatuses, ip \in StaIps, io \in IOs(1) :
       /\ faults' = faults + Failures(io)
       /\ IF status = "WL_CONNECTED"
            THEN /\ logf' = appendLog(logf, io[1],
                                      "STA CONNECTED: " \o join.ssid \o " IP=" \o ip)
                 /\ pc' = "station"
                 /\ bootOutcome' = "station"
                 /\ UNCHANGED <<g, portalVars>>
            ELSE /\ startCaptivePortal(g, io[1])
                 /\ bootOutcome' = IF everConnected THEN "dropped" ELSE "exhausted"
                 /\ UNCHANGED logf
  /\ SetupReturns
  /\ UNCHANGED <<config, wall, landing, join, cfgOpened, dnsServiced, response, steps,
                 hist, tasks, escape>>

\* The main loop function: return unless apMode, else service DNS
LoopNoGuard ==
  /\ pc \in {"station", "portal"}
  /\ dnsServiced' = TRUE
  /\ UNCHANGED <<pc, stores, g, portalVars, setupVars, bootOutcome, response, steps,
                 faults, hist, tasks, escape>>

Loop ==
  /\ pc \in {"station", "portal"}
  /\ dnsServiced' = (dnsServiced \/ apMode)
  /\ UNCHANGED <<pc, stores, g, portalVars, setupVars, bootOutcome, response, steps,
                 faults, hist, tasks, escape>>

\* ---------------------------------------------------------------------
\* The portal: requests and soft-AP events
\* ---------------------------------------------------------------------

\* ESP.restart(): RAM is re-initialised, the records stay
Restart ==
  /\ pc' = "mount"
  /\ g' = DefaultSettings
  /\ apMode' = FALSE
  /\ wifiMode' = "off"
  /\ join' = NoJoin
  /\ retries' = 0
  /\ statusReads' = 0
  /\ waitMs' = 0
  /\ everConnected' = FALSE
  /\ cfgOpened' = FALSE
  /\ bootOutcome' = "booting"
  /\ serverBegun' = FALSE
  /\ dnsStarted' = FALSE
  /\ dnsServiced' = FALSE
  /\ eventHooked' = FALSE

\* The server runs a handler to completion
Apply(out) ==
  /\ pc = "portal"
  /\ serverBegun
  /\ config' = out.cfg
  /\ logf' = out.log
  /\ wall' = out.wall
  /\ landing' = out.landing
  /\ response' = out.resp
  /\ steps' = steps + 1
  /\ UNCHANGED <<tasks, escape>>
  /\ IF out.restart
       THEN Restart
       ELSE /\ g' = out.g
            /\ UNCHANGED <<pc, portalVars, setupVars, bootOutcome, dnsServiced>>

Budget == steps < MaxSteps

\* A handler F run under each outcome io of its (at most n) opens; an
\* outcome that changes nothing it does is the run where every open works
Serve(F(_), n) ==
  \E io \in IOs(n) :
    \E out \in {F(io)} :
      /\ io = AllOk \/ out # F(AllOk)
      /\ Apply(out)
      /\ faults' = faults + Failures(io)

Probe ==
  /\ Budget
  /\ \E path \in ProbePaths : Serve(LAMBDA io : HandleProbe(Cur), 0)
  /\ UNCHANGED hist

Portal ==
  /\ Budget
  /\ Serve(LAMBDA io : HandlePortal(Cur, io), 2)
  /\ UNCHANGED hist

\* /submit-message with the given inputs; hist records an appendToWall() call
SubmitMessageWith(msg, ms, clientIP, n) ==
  /\ Serve(LAMBDA io : HandleSubmitMessage(Cur, msg, ms, clientIP, io), n)
  /\ hist' = IF Len(SubmittedText(msg)) > 0 /\ g.publicWall
               THEN <<getTimestamp(ms) \o "|" \o SubmittedText(msg) \o "\n">> \o hist
               ELSE hist

SubmitMessage ==
  /\ Budget
  /\ \E msg \in Msgs, ms \in Uptimes, clientIP \in ClientIps :
       SubmitMessageWith(msg, ms, clientIP, 3)

AdminGet ==
  /\ Budget
  /\ Serve(LAMBDA io : HandleAdminGet(Cur), 0)
  /\ UNCHANGED hist

AdminPost ==
  /\ Budget
  /\ \E <<user, pass>> \in Logins :
       Serve(LAMBDA io : HandleAdminPost(Cur, user, pass, io), 2)
  /\ UNCHANGED hist

Log ==
  /\ Budget
  /\ \E <<user, pass>> \in Logins :
       Serve(LAMBDA io : HandleLog(Cur, user, pass, io), 1)
  /\ UNCHANGED hist

ExportLog ==
  /\ Budget
  /\ \E <<user, pass>> \in Logins :
       Serve(LAMBDA io : HandleExportLog(Cur, user, pass, io), 1)
  /\ UNCHANGED hist

ClearLog ==
  /\ Budget
  /\ \E <<user, pass>> \in Logins :
       Serve(LAMBDA io : HandleClearLog(Cur, user, pass, io), 3)
  /\ UNCHANGED hist

ClearWall ==
  /\ Budget
  /\ \E <<user, pass>> \in Logins :
       Serve(LAMBDA io : HandleClearWall(Cur, user, pass, io), 3)
  /\ UNCHANGED hist

SaveSettings ==
  /\ Budget
  /\ \E <<user, pass>> \in Logins, ap_ssid \in ApSsids, site_name \in SiteNames,
        public_wall \in BOOLEAN :
       Serve(LAMBDA io : HandleSaveSettings(Cur, user, pass, ap_ssid, site_name,
                                            public_wall, io), 2)
  /\ UNCHANGED hist

Editor ==
  /\ Budget
  /\ \E <<user, pass>> \in Logins :
       Serve(LAMBDA io : HandleEditor(Cur, user, pass, io), 1)
  /\ UNCHANGED hist

SaveLanding ==
  /\ Budget
  /\ \E <<user, pass>> \in Logins, html \in Htmls :
       Serve(LAMBDA io : HandleSaveLanding(Cur, user, pass, html, io), 2)
  /\ UNCHANGED hist

ResetLanding ==
  /\ Budget
  /\ \E <<user, pass>> \in Logins :
       Serve(LAMBDA io : HandleResetLanding(Cur, user, pass, io), 1)
  /\ UNCHANGED hist

Save ==
  /\ Budget
  /\ \E <<user, pass>> \in Logins, ssid \in Ssids, wifipass \in WifiPasses :
       Serve(LAMBDA io : HandleSave(Cur, user, pass, ssid, wifipass, io), 3)
  /\ UNCHANGED hist

Reboot ==
  /\ Budget
  /\ \E <<user, pass>> \in Logins :
       Serve(LAMBDA io : HandleReboot(Cur, user, pass), 0)
  /\ UNCHANGED hist

\* A (method, path) pair no server.on() registered
Methods == {"GET", "POST"}
PostPaths == {"/submit-message", "/admin", "/log", "/exportlog", "/clearlog",
              "/clearwall", "/save-settings", "/editor", "/save-landing",
              "/reset-landing", "/save", "/reboot"}
GetPaths == ProbePaths \cup {"/portal", "/admin"}
\* The routes matched by path alone, whatever the method
RegisteredAnyMethod(method, path) == path \in GetPaths \cup PostPaths

Registered(method, path) ==
  \/ method = "GET" /\ path \in GetPaths
  \/ method = "POST" /\ path \in PostPaths

\* The fields a request can carry
RequestOf(user, pass) ==
  [user |-> user, pass |-> pass, msg |-> Field("hi"), ssid |-> Field("Lab"),
   wifipass |-> Field("pw 1"), ap_ssid |-> Field("Guest"), site_name |-> Field("lobby"),
   public_wall |-> FALSE, html |-> Field("<html><body>hi</body></html>"),
   ms |-> 90061000, clientIP |-> "192.168.4.2"]

\* The server hands a request to the handler registered for its method
\* and path, or to the onNotFound handler
Route(method, path, st, req, io) ==
  IF ~Registered(method, path) THEN HandleNotFound(st, io)
  ELSE IF method = "GET"
    THEN IF path = "/portal" THEN HandlePortal(st, io)
         ELSE IF path = "/admin" THEN HandleAdminGet(st)
         ELSE HandleProbe(st)
  ELSE
    CASE path = "/submit-message" ->
           HandleSubmitMessage(st, req.msg, req.ms, req.clientIP, io)
      [] path = "/admin" -> HandleAdminPost(st, req.user, req.pass, io)
      [] path = "/log" -> HandleLog(st, req.user, req.pass, io)
      [] path = "/exportlog" -> HandleExportLog(st, req.user, req.pass, io)
      [] path = "/clearlog" -> HandleClearLog(st, req.user, req.pass, io)
      [] path = "/clearwall" -> HandleClearWall(st, req.user, req.pass, io)
      [] path = "/save-settings" ->
           HandleSaveSettings(st, req.user, req.pass, req.ap_ssid, req.site_name,
                              req.public_wall, io)
      [] path = "/editor" -> HandleEditor(st, req.user, req.pass, io)
      [] path = "/save-landing" -> HandleSaveLanding(st, req.user, req.pass, req.html, io)
      [] path = "/reset-landing" -> HandleResetLanding(st, req.user, req.pass, io)
      [] path = "/save" -> HandleSave(st, req.user, req.pass, req.ssid, req.wifipass, io)
      [] OTHER -> HandleReboot(st, req.user, req.pass)
OtherPaths == {"/", "/save"}

NotFound ==
  /\ Budget
  /\ \E method \in Methods, path \in OtherPaths :
       /\ ~Registered(method, path)
       /\ Serve(LAMBDA io : HandleNotFound(Cur, io), 2)
  /\ UNCHANGED hist

\* onWiFiEvent(): the log after the callback ran
onWiFiEvent(event, mac, log, openOk) ==
  IF event = "AP_STACONNECTED" THEN appendLog(log, openOk, "CONNECTED: " \o mac)
  ELSE IF event = "AP_STADISCONNECTED" THEN appendLog(log, openOk, "DISCONNECTED: " \o mac)
  ELSE log

WiFiEvent ==
  /\ Budget
  /\ pc = "portal"
  /\ eventHooked
  /\ \E event \in WiFiEvents, mac \in Macs, io \in IOs(1) :
       /\ io = AllOk \/ onWiFiEvent(event, mac, logf, FALSE) # onWiFiEvent(event, mac, logf, TRUE)
       /\ logf' = onWiFiEvent(event, mac, logf, io[1])
       /\ faults' = faults + Failures(io)
  /\ steps' = steps + 1
  /\ UNCHANGED <<pc, config, wall, landing, g, portalVars, setupVars, bootOutcome,
                 dnsServiced, response, hist, tasks, escape>>

Request ==
  \/ Probe \/ Portal \/ SubmitMessage \/ AdminGet \/ AdminPost \/ Log \/ ExportLog
  \/ ClearLog \/ ClearWall \/ SaveSettings \/ Editor \/ SaveLanding \/ ResetLanding
  \/ Save \/ Reboot \/ NotFound

SetupStep == SetupMount \/ SetupReadConfig \/ SetupPoll \/ SetupCheck

Next == SetupStep \/ Loop \/ Request \/ WiFiEvent

Spec == Init /\ [][Next]_vars


\* ---------------------------------------------------------------------
\* The boot sequence on its own: setup() under every radio behaviour
\* ---------------------------------------------------------------------

\* /config.txt as earlier runs leave it, with and without settings lines
BootConfigs ==
  InitConfigs
    \cup {FileOf(ConfigText("Lab", "pw 1", [apSsid |-> "FreeWiFi", siteName |-> "cafe",
                                           publicWall |-> FALSE])),
          FileOf(ConfigText("Lab", "", DefaultSettings))}

BootInit ==
  /\ PowerOn
  /\ config \in BootConfigs
  /\ logf = NoFile
  /\ wall = NoFile
  /\ landing = NoFile
  /\ response = NoResponse
  /\ steps = 0
  /\ faults = 0
  /\ hist = <<>>
  /\ tasks = IdleTasks
  /\ escape = NoEscape

BootNext == SetupStep \/ Loop

\* setup() is never suspended: the mount, each pass of the retry loop and
\* the test after it are taken when they can be, and readConfig() returns
BootSpec ==
  /\ BootInit
  /\ [][BootNext]_vars
  /\ WF_vars(SetupMount)
  /\ WF_vars(SetupPoll)
  /\ WF_vars(SetupCheck)
  /\ []<>(pc # "readcfg")

\* ---------------------------------------------------------------------
\* The wall on its own: /submit-message requests after earlier appends
\* ---------------------------------------------------------------------

\* Entries already appended when a run starts
PriorCounts == {0, 1, 49, 50}
\* millis() at the i-th append
UptimeAt(i) == i * 61000
WallMsgs == {Field("m"), Field("hi there"), Field("a\nb")}

\* /wall.txt after the calls appendToWall(getTimestamp(), "old") number
\* lo to hi, made on the record w
RECURSIVE WallAfterAppends(_, _, _)
WallAfterAppends(w, lo, hi) ==
  IF lo > hi THEN w
  ELSE IF lo = hi
    THEN appendToWall(w, TRUE, TRUE, getTimestamp(UptimeAt(lo)), "old")
  ELSE LET mid == (lo + hi) \div 2
           half == WallAfterAppends(w, lo, mid)
       IN  IF half.exists THEN WallAfterAppends(half, mid + 1, hi) ELSE half

PriorWall(k) == WallAfterAppends(NoFile, 1, k)

\* The lines those calls appended, latest first
PriorHist(k) == [i \in 1..k |-> getTimestamp(UptimeAt(k + 1 - i)) \o "|old\n"]

\* The portal is up with default settings; k appends were served before
InitWall ==
  /\ \E k \in PriorCounts :
       /\ wall = PriorWall(k)
       /\ hist = PriorHist(k)
  /\ tasks = IdleTasks
  /\ escape = NoEscape
  /\ pc = "portal"
  /\ config = NoFile
  /\ logf = NoFile
  /\ landing = NoFile
  /\ g = DefaultSettings
  /\ apMode = TRUE
  /\ wifiMode = "ap"
  /\ join = NoJoin
  /\ retries = 0
  /\ statusReads = 0
  /\ waitMs = 0
  /\ everConnected = FALSE
  /\ cfgOpened = FALSE
  /\ bootOutcome = "nocreds"
  /\ serverBegun = TRUE
  /\ dnsStarted = TRUE
  /\ dnsServiced = FALSE
  /\ eventHooked = TRUE
  /\ response = NoResponse
  /\ steps = 0
  /\ faults = 0

\* POST /submit-message, every SPIFFS.open() succeeding
WallSubmit ==
  /\ steps < MaxWallAppends
  /\ \E msg \in WallMsgs, clientIP \in ClientIps :
       SubmitMessageWith(msg, UptimeAt(Len(hist) + 1), clientIP, 0)

SpecWall == InitWall /\ [][WallSubmit]_vars

\* ---------------------------------------------------------------------
\* Stealth mode on its own: submissions, wall toggles and landing renders
\* ---------------------------------------------------------------------
\* Messages sent only while g_publicWall is false, and messages sent at
\* any time
StealthMsgs == {Field(" psst "), Field("y2k")}
PublicMsgs == {Field("hello")}
StealthLandings == {NoFile, FileOf("<html><body>hi</body></html>")}

\* The portal is up with default settings on a device never configured
InitStealth ==
  /\ pc = "portal"
  /\ config = NoFile
  /\ logf = NoFile
  /\ wall = NoFile
  /\ landing \in StealthLandings
  /\ g = DefaultSettings
  /\ apMode = TRUE
  /\ wifiMode = "ap"
  /\ join = NoJoin
  /\ retries = 0
  /\ statusReads = 0
  /\ waitMs = 0
  /\ everConnected = FALSE
  /\ cfgOpened = FALSE
  /\ bootOutcome = "nocreds"
  /\ serverBegun = TRUE
  /\ dnsStarted = TRUE
  /\ dnsServiced = FALSE
  /\ eventHooked = TRUE
  /\ response = NoResponse
  /\ steps = 0
  /\ faults = 0
  /\ hist = <<>>
  /\ tasks = IdleTasks
  /\ escape = NoEscape

\* POST /submit-message while the wall is disabled
StealthSubmit ==
  /\ steps < MaxStealthSteps
  /\ ~g.publicWall
  /\ \E msg \in StealthMsgs, ms \in Uptimes, clientIP \in ClientIps :
       SubmitMessageWith(msg, ms, clientIP, 3)

\* POST /submit-message at any time
PublicSubmit ==
  /\ steps < MaxStealthSteps
  /\ \E msg \in PublicMsgs, ms \in Uptimes, clientIP \in ClientIps :
       SubmitMessageWith(msg, ms, clientIP, 3)

\* The admin's POST /save-settings with the wall checkbox set or cleared
StealthToggle ==
  /\ steps < MaxStealthSteps
  /\ \E public_wall \in BOOLEAN :
       Serve(LAMBDA io : HandleSaveSettings(Cur, Field(AUTH_USER), Field(AUTH_PASS),
                                            Missing, Missing, public_wall, io), 2)
  /\ UNCHANGED hist

\* GET /portal
StealthRender ==
  /\ steps < MaxStealthSteps
  /\ Serve(LAMBDA io : HandlePortal(Cur, io), 2)
  /\ UNCHANGED hist

NextStealth == StealthSubmit \/ PublicSubmit \/ StealthToggle \/ StealthRender

SpecStealth == InitStealth /\ [][NextStealth]_vars

\* ---------------------------------------------------------------------
\* Properties
\* ---------------------------------------------------------------------

\* user and pass are both present and equal the configured pair
Matches(user, pass) ==
  user.has /\ pass.has /\ user.val = AUTH_USER /\ pass.val = AUTH_PASS

\* The (user, pass) pairs that do not match: a wrong value or a missing field
BadLogins == {l \in Users \X Passes : ~Matches(l[1], l[2])}

\* Every outcome of the opens of one handler run
IoOutcomes == [1..3 -> BOOLEAN]

\* C1: a boot whose station connection succeeded has started no part of the
\* portal: apMode is false, no route is registered (the server never begun),
\* the soft-AP event hook and the DNS responder were never started and the
\* main loop never services DNS; and no state has the radio in station mode
\* together with any part of the portal.
StationExcludesPortal ==
  /\ bootOutcome = "station" =>
       /\ pc = "station"
       /\ wifiMode = "sta"
       /\ ~apMode
       /\ ~serverBegun
       /\ ~dnsStarted
       /\ ~dnsServiced
       /\ ~eventHooked
  /\ ~(wifiMode = "sta" /\ (apMode \/ serverBegun \/ dnsStarted \/ dnsServiced))
  /\ ~(pc = "station" /\ apMode)

\* C1 witness: setup() returned in station mode after logging the connection
StationReached == pc = "station" /\ wifiMode = "sta" /\ logf.exists

\* C2: when /config.txt is absent, cannot be opened, or has a first line
\* that is empty after trimming, the step of setup() that reads the
\* credentials ends in portal mode at once: no WiFi.begin() was issued, no
\* status was read and no delay was spent.
NoCredentialsGoesStraightToPortal ==
  [][(/\ pc = "readcfg"
      /\ \/ ~config.exists
         \/ ~cfgOpened'
         \/ Len(Trim(ReadStringUntilNL(config.data, 0).str)) = 0)
       => (/\ pc' = "portal"
           /\ apMode'
           /\ wifiMode' = "ap"
           /\ ~join'.issued
           /\ statusReads' = 0
           /\ retries' = 0
           /\ waitMs' = 0)]_vars

\* C2 witness: the portal came up because a stored, usable /config.txt
\* could not be opened
UnreadableConfigPortal ==
  /\ pc = "portal"
  /\ bootOutcome = "nocreds"
  /\ config.exists
  /\ ~cfgOpened
  /\ Len(Trim(ReadStringUntilNL(config.data, 0).str)) > 0
  /\ ~join.issued

\* C3: the retry counter never exceeds 20 and every retry is one 500 ms
\* wait; when no status read of the boot reported connected, the loop is
\* left only with the counter at 20 (20 waits, 10 s), and the boot then
\* enters portal mode.
TwentyPollsThenPortal ==
  /\ [](retries <= STA_RETRIES /\ waitMs = retries * STA_RETRY_MS)
  /\ [][(pc = "check" /\ ~everConnected /\ pc' # "station")
          => (/\ retries = STA_RETRIES
              /\ waitMs = STA_RETRIES * STA_RETRY_MS
              /\ statusReads = STA_RETRIES + 1
              /\ pc' = "portal"
              /\ apMode')]_vars

\* C3 witness: the portal came up after a boot in which the radio never
\* reported connected
RetriesExhaustedPortal == pc = "portal" /\ bootOutcome = "exhausted" /\ join.issued

\* C4: with stored credentials, portal mode is entered only with all 20
\* retries spent, whatever the radio reports at each status read.
PortalOnlyAfterFullBudget ==
  [][(pc = "check" /\ pc' = "portal") => retries = STA_RETRIES]_vars

\* C5: once the mount succeeded the boot decision ends, whatever the radio
\* reports, in station mode or in portal mode (never both), and the retry
\* loop waits at most 20 times.
BootTerminates ==
  /\ [](retries <= STA_RETRIES /\ waitMs <= STA_RETRIES * STA_RETRY_MS)
  /\ [](pc \in {"station", "portal"} => (apMode <=> pc = "portal"))
  /\ (pc = "readcfg") ~> (pc \in {"station", "portal"})

\* C5 witness: the loop was left at the last possible moment, the radio
\* reporting connected when all 20 waits were spent
ConnectedAtLastRetry ==
  pc = "check" /\ retries = STA_RETRIES /\ everConnected
    /\ waitMs = STA_RETRIES * STA_RETRY_MS

\* C6: once setup() returned, no request, WiFi event or loop pass changes
\* the mode short of a restart; a restart answers with the reboot page or
\* the credentials-saved page, and a handler restarts only for a matching
\* user/pass pair on /reboot, or on /save with a non-empty trimmed ssid
\* and the new credentials written to /config.txt.
ModeChangesOnlyByRestart ==
  /\ [][(pc = "station" \/ pc = "portal")
          => (\/ /\ pc' = pc
                 /\ apMode' = apMode
                 /\ wifiMode' = wifiMode
                 /\ serverBegun' = serverBegun
                 /\ dnsStarted' = dnsStarted
                 /\ bootOutcome' = bootOutcome
              \/ /\ pc = "portal"
                 /\ PowerOn'
                 /\ response' \in {RebootingPage, CredentialsSavedPage})]_vars
  /\ [](pc = "portal" =>
          \A user \in Users, pass \in Passes :
            /\ HandleReboot(Cur, user, pass).restart => Matches(user, pass)
            /\ \A ssid \in Ssids, wifipass \in WifiPasses, io \in IoOutcomes :
                 LET out == HandleSave(Cur, user, pass, ssid, wifipass, io)
                     stored == readConfig(out.cfg, TRUE, out.g)
                 IN  out.restart =>
                       /\ Matches(user, pass)
                       /\ Len(Trim(FieldOr(ssid, ""))) > 0
                       /\ io[2]
                       /\ stored.ok
                       /\ stored.ssid = Trim(FieldOr(ssid, ""))
                       /\ stored.password = Trim(FieldOr(wifipass, "")))

\* C6 witness: the device restarted out of portal mode after /save
RestartedAfterSave == pc = "mount" /\ response = CredentialsSavedPage /\ ~apMode

\* C7: on each of the ten protected routes, a request whose user/pass do
\* not both match gets the 403 "Forbidden." response, leaves the four
\* records and the settings as they were and triggers no restart,
\* whatever its other fields and whatever the opens would have returned.
UnauthorizedIsRefused ==
  pc = "portal" =>
    \A l \in BadLogins, io \in IoOutcomes :
      LET user == l[1]
          pass == l[2]
          refused == [cfg |-> config, log |-> logf, wall |-> wall, landing |-> landing,
                      g |-> g, resp |-> Send(403, "text/plain", "Forbidden."),
                      restart |-> FALSE]
      IN  /\ HandleLog(Cur, user, pass, io) = refused
          /\ HandleExportLog(Cur, user, pass, io) = refused
          /\ HandleClearLog(Cur, user, pass, io) = refused
          /\ HandleClearWall(Cur, user, pass, io) = refused
          /\ \A ap_ssid \in ApSsids, site_name \in SiteNames, public_wall \in BOOLEAN :
               HandleSaveSettings(Cur, user, pass, ap_ssid, site_name, public_wall, io)
                 = refused
          /\ HandleEditor(Cur, user, pass, io) = refused
          /\ \A html \in Htmls : HandleSaveLanding(Cur, user, pass, html, io) = refused
          /\ HandleResetLanding(Cur, user, pass, io) = refused
          /\ \A ssid \in Ssids, wifipass \in WifiPasses :
               HandleSave(Cur, user, pass, ssid, wifipass, io) = refused
          /\ HandleReboot(Cur, user, pass) = refused

\* C7 witness: a request was refused while the wall held a message
RefusedWithWallContent == pc = "portal" /\ response = Forbidden /\ wall.exists

\* C8: on each protected route, all requests that fail authorization from
\* one state (bad user, bad pass, missing fields, any other fields) have
\* one and the same outcome: the same response and the same resulting
\* records, settings and restart decision.
AuthFailuresIndistinguishable ==
  pc = "portal" =>
    /\ Cardinality({HandleLog(Cur, l[1], l[2], io) :
                      l \in BadLogins, io \in IoOutcomes}) = 1
    /\ Cardinality({HandleExportLog(Cur, l[1], l[2], io) :
                      l \in BadLogins, io \in IoOutcomes}) = 1
    /\ Cardinality({HandleClearLog(Cur, l[1], l[2], io) :
                      l \in BadLogins, io \in IoOutcomes}) = 1
    /\ Cardinality({HandleClearWall(Cur, l[1], l[2], io) :
                      l \in BadLogins, io \in IoOutcomes}) = 1
    /\ Cardinality({HandleSaveSettings(Cur, l[1], l[2], ap_ssid, site_name,
                                       public_wall, io) :
                      l \in BadLogins, ap_ssid \in ApSsids, site_name \in SiteNames,
                      public_wall \in BOOLEAN, io \in IoOutcomes}) = 1
    /\ Cardinality({HandleEditor(Cur, l[1], l[2], io) :
                      l \in BadLogins, io \in IoOutcomes}) = 1
    /\ Cardinality({HandleSaveLanding(Cur, l[1], l[2], html, io) :
                      l \in BadLogins, html \in Htmls, io \in IoOutcomes}) = 1
    /\ Cardinality({HandleResetLanding(Cur, l[1], l[2], io) :
                      l \in BadLogins, io \in IoOutcomes}) = 1
    /\ Cardinality({HandleSave(Cur, l[1], l[2], ssid, wifipass, io) :
                      l \in BadLogins, ssid \in Ssids, wifipass \in WifiPasses,
                      io \in IoOutcomes}) = 1
    /\ Cardinality({HandleReboot(Cur, l[1], l[2]) : l \in BadLogins}) = 1

\* C8 witness: a request was refused while the log held entries
RefusedWithLogContent == pc = "portal" /\ response = Forbidden /\ logf.exists

\* The concatenation of the lines lo to hi of a sequence
RECURSIVE ConcatRange(_, _, _)
ConcatRange(lines, lo, hi) ==
  IF lo > hi THEN ""
  ELSE IF lo = hi THEN lines[lo]
  ELSE LET mid == (lo + hi) \div 2
       IN  ConcatRange(lines, lo, mid) \o ConcatRange(lines, mid + 1, hi)

\* C9: after more than 50 appends, /wall.txt reads back as exactly the 50
\* most recently appended `timestamp|text` lines, latest first, byte for
\* byte, for every text /submit-message accepts.
WallKeepsFiftyMostRecent ==
  Len(hist) > MAX_WALL_ENTRIES =>
    readWallFile(wall, TRUE) = ConcatRange(hist, 1, MAX_WALL_ENTRIES)

\* The entries of a wall content from offset start: its lines, a final
\* line without line break counting as one
RECURSIVE EntriesFrom(_, _)
EntriesFrom(content, start) ==
  IF start >= Len(content) THEN <<>>
  ELSE
    LET nl == IndexOfFrom(content, "\n", start)
    IN  IF nl < 0 THEN <<SubstringFrom(content, start)>>
        ELSE <<Substring(content, start, nl)>> \o EntriesFrom(content, nl + 1)

FirstN(seq, n) == SubSeq(seq, 1, MinOf({n, Len(seq)}))

\* C10: after every append the wall holds at most 50 entries: the entry
\* just appended first, then the entries it held before in their order,
\* cut after the 50th.
AppendPrependsAndDropsOldest ==
  [][hist' # hist =>
       (LET appended == Substring(Head(hist'), 0, Len(Head(hist')) - 1)
            before == EntriesFrom(readWallFile(wall, TRUE), 0)
            after == EntriesFrom(readWallFile(wall', TRUE), 0)
        IN  /\ Len(after) <= MAX_WALL_ENTRIES
            /\ after = FirstN(<<appended>> \o before, MAX_WALL_ENTRIES))]_vars

\* s holds sub somewhere
Contains(s, sub) == IndexOf(s, sub) >= 0

\* The lines appended to a log that held `before` and now holds `after`
AppendedLines(before, after) ==
  EntriesFrom(SubstringFrom(after.data, Len(before.data)), 0)

\* C11: a /submit-message whose msg is non-empty after trimming, every
\* open succeeding: with the public wall enabled, `HH:MM:SS|msg` is the
\* new first line of /wall.txt and one appended line of /log.txt holds
\* `WALL:` and the message; with the wall disabled, /wall.txt is unchanged
\* and one appended line of /log.txt holds `MSG:` and the message.  The
\* message is the text as the handler keeps it (trimmed, cut to 200).
SubmissionIsRecorded ==
  pc = "portal" =>
    \A msg \in Msgs, ms \in Uptimes, clientIP \in ClientIps :
      (msg.has /\ Len(Trim(msg.val)) > 0) =>
        LET out == HandleSubmitMessage(Cur, msg, ms, clientIP, AllOk)
            m == SubmittedText(msg)
            wallLines == EntriesFrom(out.wall.data, 0)
            logLines == AppendedLines(logf, out.log)
        IN  IF g.publicWall
              THEN /\ wallLines # <<>>
                   /\ Head(wallLines) = getTimestamp(ms) \o "|" \o m
                   /\ \E k \in DOMAIN logLines :
                        Contains(logLines[k], "WALL:") /\ Contains(logLines[k], m)
              ELSE /\ out.wall = wall
                   /\ \E k \in DOMAIN logLines :
                        Contains(logLines[k], "MSG:") /\ Contains(logLines[k], m)

\* C12: every /submit-message is answered with a redirect to /portal,
\* whatever its msg field and whatever the opens return; when msg is
\* missing or empty after trimming, /wall.txt and /log.txt stay as they
\* were.
SubmitAlwaysRedirects ==
  pc = "portal" =>
    \A msg \in Msgs, ms \in Uptimes, clientIP \in ClientIps, io \in IoOutcomes :
      LET out == HandleSubmitMessage(Cur, msg, ms, clientIP, io)
      IN  /\ out.resp = Redirect("/portal")
          /\ ~out.restart
          /\ (~msg.has \/ Len(Trim(msg.val)) = 0) =>
               (out.wall = wall /\ out.log = logf)

\* C12 witness: a submission was turned away (every open of the run
\* succeeded, yet nothing was logged) and the client sent back to /portal
RejectedSubmissionRedirected ==
  /\ pc = "portal"
  /\ response = Redirect("/portal")
  /\ steps = 1
  /\ faults = 0
  /\ logf = NoFile
  /\ wall = NoFile

\* The landing page as a client would be served it now
LandingNow == getLandingPageHtml(landing, TRUE, g, wall, TRUE)

\* C13: a message submitted while g_publicWall is false is not written to
\* /wall.txt and is in no landing page rendered in any later state, the
\* wall enabled again or not; and while g_publicWall is false the landing
\* page is the one rendered for an empty wall, whatever /wall.txt holds.
StealthNeverRendered ==
  pc = "portal" =>
    /\ ~g.publicWall =>
         /\ \A msg \in StealthMsgs \cup PublicMsgs, ms \in Uptimes,
               clientIP \in ClientIps, io \in IoOutcomes :
              HandleSubmitMessage(Cur, msg, ms, clientIP, io).wall = wall
         /\ \A io \in IoOutcomes :
              getLandingPageHtml(landing, io[1], g, wall, io[2])
                = getLandingPageHtml(landing, io[1], g, NoFile, io[2])
    /\ \A msg \in StealthMsgs :
         /\ ~Contains(wall.data, SubmittedText(msg))
         /\ ~Contains(LandingNow, SubmittedText(msg))
         /\ response.code = 200 => ~Contains(response.body, SubmittedText(msg))

\* C13 witness: a stealth message is in the log, the wall has been enabled
\* again and shows a public message, and the landing page was just served
StealthMessageThenWallEnabled ==
  /\ pc = "portal"
  /\ g.publicWall
  /\ Contains(logf.data, "MSG: 192.168.4.2 [01:01:01] psst")
  /\ Contains(LandingNow, "hello")
  /\ response.code = 200
  /\ Contains(response.body, "<div class=\"wall\">")

\* The matching user/pass pair
GoodUser == Field(AUTH_USER)
GoodPass == Field(AUTH_PASS)

\* C14: an authorized /save whose ssid is missing or empty after trimming
\* is answered with a 4xx response, leaves /config.txt byte for byte as it
\* was, appends nothing to /log.txt and does not restart, whatever the
\* passphrase field and whatever the opens would return.
EmptySsidSaveRejected ==
  pc = "portal" =>
    \A ssid \in Ssids, wifipass \in WifiPasses, io \in IoOutcomes :
      Len(Trim(FieldOr(ssid, ""))) = 0 =>
        LET out == HandleSave(Cur, GoodUser, GoodPass, ssid, wifipass, io)
        IN  /\ out.resp.code \in 400..499
            /\ out.cfg = config
            /\ out.log = logf
            /\ ~out.restart

\* C14 witness: the empty-ssid answer was sent while /config.txt held
\* credentials
EmptySsidRefusedWithStoredConfig ==
  /\ pc = "portal"
  /\ response = Send(400, "text/plain", "SSID cannot be empty.")
  /\ config.exists
  /\ readConfig(config, TRUE, g).ok

\* The ssid and wifipass fields an admin can post to /save
DeploySsids == Ssids \cup {Field("Lab 2"), Field("a\nb")}
DeployPasses == WifiPasses \cup {Field(" s3cret "), Field("p\nq")}

\* C15: an authorized /save with trimmed non-empty ssid S and trimmed
\* passphrase P restarts exactly when /config.txt was written, the record
\* then holding S and P; and the boot that follows issues WiFi.begin()
\* with the credentials readConfig() returns for that record, which are
\* exactly S and P.
DeployedCredentialsJoined ==
  /\ [](pc = "portal" =>
          \A ssid \in DeploySsids, wifipass \in DeployPasses, io \in IoOutcomes :
            LET S == Trim(FieldOr(ssid, ""))
                P == Trim(FieldOr(wifipass, ""))
                out == HandleSave(Cur, GoodUser, GoodPass, ssid, wifipass, io)
                boot == readConfig(out.cfg, TRUE, DefaultSettings)
            IN  Len(S) > 0 =>
                  /\ out.restart <=> io[2]
                  /\ out.restart =>
                       /\ out.cfg = FileOf(ConfigText(S, P, out.g))
                       /\ boot.ok
                       /\ boot.ssid = S
                       /\ boot.password = P)
  /\ [][(pc = "readcfg" /\ pc' = "connect") =>
          (LET stored == readConfig(config, TRUE, g)
           IN  join' = [issued |-> TRUE, ssid |-> stored.ssid,
                        pass |-> stored.password])]_vars

\* The ssid and passphrase slots of /config.txt: its first two lines,
\* trimmed as readConfig() returns them
CredentialSlots(cfg) ==
  IF ~cfg.exists THEN <<"", "">>
  ELSE LET r1 == ReadStringUntilNL(cfg.data, 0)
           r2 == ReadStringUntilNL(cfg.data, r1.pos)
       IN  <<Trim(r1.str), Trim(r2.str)>>

\* C16: the two credential slots of /config.txt change only in an
\* authorized /save with a non-empty ssid (the one request answered with
\* the credentials-saved page); every other step, an authorized
\* /save-settings included, leaves both slots with the values they had.
CredentialsChangeOnlyBySave ==
  [][CredentialSlots(config') # CredentialSlots(config)
       => (pc = "portal" /\ response' = CredentialsSavedPage /\ pc' = "mount")]_vars

\* The ap_ssid and site_name fields an admin can post to /save-settings
SettingsApSsids == ApSsids \cup {Field(" Guest ")}
SettingsSiteNames == SiteNames \cup {Field("lobby")}

\* The records and settings a handler run leaves behind
After(out) ==
  [cfg |-> out.cfg, log |-> out.log, wall |-> out.wall, landing |-> out.landing,
   g |-> out.g]

\* C17: after an authorized /save-settings with ap_ssid = a and
\* site_name = s (both non-empty after trimming) and the public_wall
\* checkbox present or absent, every open succeeding, the settings in
\* memory and the settings a later load reads from /config.txt are a, s
\* and that flag, whatever /config.txt held before; and the same request
\* again changes nothing.
SettingsRoundTrip ==
  pc = "portal" =>
    \A ap_ssid \in SettingsApSsids, site_name \in SettingsSiteNames,
       public_wall \in BOOLEAN :
      LET a == Trim(FieldOr(ap_ssid, ""))
          s == Trim(FieldOr(site_name, ""))
          want == [apSsid |-> a, siteName |-> s, publicWall |-> public_wall]
          out == HandleSaveSettings(Cur, GoodUser, GoodPass, ap_ssid, site_name,
                                    public_wall, AllOk)
          again == HandleSaveSettings(After(out), GoodUser, GoodPass, ap_ssid,
                                      site_name, public_wall, AllOk)
      IN  (Len(a) > 0 /\ Len(s) > 0) =>
            /\ out.g = want
            /\ loadSettings(out.cfg, TRUE, DefaultSettings) = want
            /\ readConfig(out.cfg, TRUE, DefaultSettings).g = want
            /\ again.cfg = out.cfg
            /\ again.g = out.g

\* The settings persisted in a config record: what its settings lines
\* hold, "" for a name that has no line or an empty value
PersistedSettings(cfg) ==
  loadSettings(cfg, TRUE, [apSsid |-> "", siteName |-> "", publicWall |-> FALSE])

\* C18: after an authorized /save-settings whose ap_ssid (site_name) is
\* missing or trims to empty, every open succeeding, /config.txt holds the
\* default "SetupWiFi" ("funnyportal") for that name, whatever it held
\* before; and it never holds an empty value for either name.
EmptySettingFallsBackToDefault ==
  pc = "portal" =>
    \A ap_ssid \in SettingsApSsids, site_name \in SettingsSiteNames,
       public_wall \in BOOLEAN :
      LET out == HandleSaveSettings(Cur, GoodUser, GoodPass, ap_ssid, site_name,
                                    public_wall, AllOk)
          stored == PersistedSettings(out.cfg)
      IN  /\ Len(Trim(FieldOr(ap_ssid, ""))) = 0 => stored.apSsid = "SetupWiFi"
          /\ Len(Trim(FieldOr(site_name, ""))) = 0 => stored.siteName = "funnyportal"
          /\ stored.apSsid # ""
          /\ stored.siteName # ""

\* n copies of the string c
RECURSIVE Repeat(_, _)
Repeat(c, n) ==
  IF n <= 0 THEN ""
  ELSE IF n = 1 THEN c
  ELSE Repeat(c, n \div 2) \o Repeat(c, n - (n \div 2))

\* A page of n bytes that starts with <html>
PageOfSize(n) == "<html>" \o Repeat("x", n - 6)

\* The html fields an admin can post to /save-landing
LandingPayloads ==
  Htmls \cup {Field("<Html><Body>hi</Body></Html>"), Field("<hTmL>"), Field(""),
              Field(PageOfSize(25000)), Field(PageOfSize(25001))}

\* h holds `<html` in some mix of letter case
HasHtmlTagAnyCase(h) ==
  \E k \in 0..(Len(h) - 5) :
    /\ CharAt(h, k) = "<"
    /\ CharAt(h, k + 1) \in {"h", "H"}
    /\ CharAt(h, k + 2) \in {"t", "T"}
    /\ CharAt(h, k + 3) \in {"m", "M"}
    /\ CharAt(h, k + 4) \in {"l", "L"}

\* C19: an authorized /save-landing is accepted (answered with the saved
\* page, the payload written to /landing.html when the record opens)
\* exactly when its html field is at most 25000 bytes long and holds
\* `<html` in any mix of letter case; every other payload, and a request
\* without html field, gets a 4xx response and leaves /landing.html as it
\* was.
LandingAcceptedIffValid ==
  pc = "portal" =>
    \A html \in LandingPayloads, io \in IoOutcomes :
      LET out == HandleSaveLanding(Cur, GoodUser, GoodPass, html, io)
          valid == html.has /\ Len(html.val) <= 25000 /\ HasHtmlTagAnyCase(html.val)
      IN  IF valid
            THEN /\ out.resp = LandingSavedPage
                 /\ io[1] => out.landing = FileOf(html.val)
            ELSE /\ out.resp.code \in 400..499
                 /\ out.landing = landing

\* Custom landing templates without the %MESSAGE_SECTION% placeholder
PlainTemplates ==
  {Field("<html><body>hi</body></html>"),
   Field("<html><body><h1>%SITE_NAME%</h1></body></html>"),
   Field("<!-- </body> --><html><body>hi</body></html>"),
   Field("<HTML><BODY>hi</BODY></HTML>")}

\* The offsets at which sub starts in s
Occurrences(s, sub) ==
  {k \in 0..(Len(s) - Len(sub)) : SubSeq(s, k + 1, k + Len(sub)) = sub}

\* t is a closing body tag, in any letter case
IsClosingBodyTag(t) ==
  /\ Len(t) = 7
  /\ SubSeq(t, 1, 2) = "</"
  /\ CharAt(t, 2) \in {"b", "B"}
  /\ CharAt(t, 3) \in {"o", "O"}
  /\ CharAt(t, 4) \in {"d", "D"}
  /\ CharAt(t, 5) \in {"y", "Y"}
  /\ CharAt(t, 6) = ">"

\* C20: for every template /save-landing accepts that has no
\* %MESSAGE_SECTION%, the landing page rendered from it holds the
\* message-section fragment exactly once, and the closing body tag
\* follows the fragment at once.
FragmentOnceBeforeBodyEnd ==
  pc = "portal" =>
    \A html \in PlainTemplates :
      LET saved == HandleSaveLanding(Cur, GoodUser, GoodPass, html, AllOk)
          page == getLandingPageHtml(saved.landing, TRUE, g, wall, TRUE)
          fragment == buildMessageSection(g, wall, TRUE)
          at == Occurrences(page, fragment)
      IN  (saved.resp = LandingSavedPage /\ ~Contains(html.val, "%MESSAGE_SECTION%")) =>
            /\ Cardinality(at) = 1
            /\ \A k \in at :
                 IsClosingBodyTag(Substring(page, k + Len(fragment),
                                            k + Len(fragment) + 7))

\* The paths registered for POST only
PostOnlyPaths == PostPaths \ GetPaths

ChangedRecords(st, out) ==
  {r \in {"config", "log", "wall", "landing"} :
     \/ r = "config" /\ out.cfg # st.cfg
     \/ r = "log" /\ out.log # st.log
     \/ r = "wall" /\ out.wall # st.wall
     \/ r = "landing" /\ out.landing # st.landing}

\* log is the record before with the one line appended, or before itself
\* when the append could not open the record
SameOrOneLineMore(before, log, line) ==
  log = before \/ log = FileOf(before.data \o Println(line))

\* Outcomes of the first n opens of a handler run, the others succeeding
IoUpTo(n) == {io \in IoOutcomes : \A k \in 1..3 : k > n => io[k]}

\* C22 as stated: an authorized /clearlog, /clearwall, /save-settings,
\* /save-landing or /reset-landing, every open succeeding, modifies one
\* of the four records (the log, the wall, the config, the landing and
\* the landing record) and leaves the other three unchanged.
OnlyOwnRecordModified ==
  pc = "portal" =>
    /\ \A out \in {HandleClearLog(Cur, GoodUser, GoodPass, AllOk)} :
         ChangedRecords(Cur, out) \subseteq {"log"}
    /\ \A out \in {HandleClearWall(Cur, GoodUser, GoodPass, AllOk)} :
         ChangedRecords(Cur, out) \subseteq {"wall"}
    /\ \A out \in {HandleSaveSettings(Cur, GoodUser, GoodPass, ap_ssid, site_name,
                                      public_wall, AllOk) :
                     ap_ssid \in ApSsids, site_name \in SiteNames,
                     public_wall \in BOOLEAN} :
         ChangedRecords(Cur, out) \subseteq {"config"}
    /\ \A out \in {HandleSaveLanding(Cur, GoodUser, GoodPass, html, AllOk) :
                     html \in PlainTemplates} :
         ChangedRecords(Cur, out) \subseteq {"landing"}
    /\ \A out \in {HandleResetLanding(Cur, GoodUser, GoodPass, AllOk)} :
         ChangedRecords(Cur, out) \subseteq {"landing"}

\* C22 amended: an authorized /clearlog, /clearwall, /save-settings,
\* /save-landing or /reset-landing changes no record but its own (log,
\* wall, config, landing, landing), except that /clearwall, /save-landing
\* and /reset-landing also append their one audit line to the log; this
\* whether or not the open for writing succeeds.
OwnRecordAndAuditLine ==
  pc = "portal" =>
    /\ \A out \in {HandleClearLog(Cur, GoodUser, GoodPass, io) : io \in IoUpTo(1)} :
         ChangedRecords(Cur, out) \subseteq {"log"}
    /\ \A out \in {HandleClearWall(Cur, GoodUser, GoodPass, io) : io \in IoUpTo(1)} :
         /\ ChangedRecords(Cur, out) \subseteq {"wall", "log"}
         /\ ~out.wall.exists
         /\ SameOrOneLineMore(logf, out.log, "WALL CLEARED BY ADMIN")
    /\ \A out \in {HandleSaveSettings(Cur, GoodUser, GoodPass, ap_ssid, site_name,
                                      public_wall, io) :
                     ap_ssid \in ApSsids, site_name \in SiteNames,
                     public_wall \in BOOLEAN, io \in IoUpTo(2)} :
         ChangedRecords(Cur, out) \subseteq {"config"}
    /\ \A html \in PlainTemplates \cup {Missing, Field("hello")} :
         \A out \in {HandleSaveLanding(Cur, GoodUser, GoodPass, html, io) :
                       io \in IoUpTo(2)} :
           /\ ChangedRecords(Cur, out) \subseteq {"landing", "log"}
           /\ out.landing = landing \/ out.landing = FileOf(html.val)
           /\ SameOrOneLineMore(logf, out.log, "LANDING PAGE UPDATED BY ADMIN")
    /\ \A out \in {HandleResetLanding(Cur, GoodUser, GoodPass, io) : io \in IoUpTo(1)} :
         /\ ChangedRecords(Cur, out) \subseteq {"landing", "log"}
         /\ ~out.landing.exists
         /\ SameOrOneLineMore(logf, out.log, "LANDING PAGE RESET BY ADMIN")

\* C22 witness: /clearwall removed a wall that held a message and left
\* its audit line in the log
WallClearedAndLogged ==
  /\ pc = "portal"
  /\ hist # <<>>
  /\ ~wall.exists
  /\ Contains(logf.data, "WALL: ")
  /\ Contains(logf.data, "WALL CLEARED BY ADMIN")

\* The record after holds all of the record before, at its start
Extends(before, after) ==
  /\ before.exists => after.exists
  /\ Len(after.data) >= Len(before.data)
  /\ Substring(after.data, 0, Len(before.data)) = before.data

\* The step is an authorized POST /clearlog
AuthorizedClearLogStep ==
  /\ pc = "portal"
  /\ \E <<user, pass>> \in Logins, io \in IoOutcomes :
       /\ checkAdminAuth(user, pass)
       /\ \E out \in {HandleClearLog(Cur, user, pass, io)} :
            /\ logf' = out.log
            /\ response' = out.resp

\* C23: between clears the log only grows at its end: every step of a
\* request, a WiFi event or the boot sequence that is not an authorized
\* /clearlog leaves the earlier log content as a prefix of the later
\* content, so lines stand in the order in which they were appended.
LogAppendOnlyBetweenClears ==
  [][Extends(logf, logf') \/ AuthorizedClearLogStep]_vars

\* C23 witness: a line appended in the portal is followed by the line of
\* the boot that joined afterwards, with no clear in between.
PortalLineThenBootLine ==
  /\ pc = "station"
  /\ IndexOf(logf.data, "STA CONNECTED: ") > 0
  /\ ~Contains(logf.data, "LOG CLEARED BY ADMIN")

\* ---------------------------------------------------------------------
\* The two tasks that write the records in portal mode
\* ---------------------------------------------------------------------
\* The handlers registered with server.on() run one at a time in the task
\* of the asynchronous server; the callback registered with WiFi.onEvent()
\* runs in the task that delivers WiFi events. The sketch takes no lock,
\* so the event task may run between any two SPIFFS calls of a handler.
\* Each SPIFFS call is one step; every open succeeds.

\* Requests and WiFi events of one run of the task specification
MaxTaskOps == 3

TaskMsgs == {Field("m"), Field(" hi ")}

InitTasks ==
  /\ tasks = IdleTasks
  /\ escape = NoEscape
  /\ pc = "portal"
  /\ config = NoFile
  /\ logf = NoFile
  /\ wall = NoFile
  /\ landing = NoFile
  /\ g = DefaultSettings
  /\ apMode = TRUE
  /\ wifiMode = "ap"
  /\ join = NoJoin
  /\ retries = 0
  /\ statusReads = 0
  /\ waitMs = 0
  /\ everConnected = FALSE
  /\ cfgOpened = FALSE
  /\ bootOutcome = "nocreds"
  /\ serverBegun = TRUE
  /\ dnsStarted = TRUE
  /\ dnsServiced = FALSE
  /\ eventHooked = TRUE
  /\ response = NoResponse
  /\ steps = 0
  /\ faults = 0
  /\ hist = <<>>

TaskFrame ==
  UNCHANGED <<pc, config, landing, g, portalVars, setupVars, bootOutcome, dnsServiced,
              faults, escape>>

\* /submit-message with the wall enabled enters appendToWall():
\* readWallFile() and the new content are computed in RAM
HandlerWallRead ==
  /\ tasks.handler.at = "idle"
  /\ steps < MaxTaskOps
  /\ g.publicWall
  /\ \E msg \in TaskMsgs, ms \in Uptimes, clientIP \in ClientIps :
       LET m == SubmittedText(msg)
           ts == getTimestamp(ms)
       IN  /\ tasks' = [tasks EXCEPT
                          !.handler = [at |-> "wallOpen",
                                       content |-> WallContentAfter(
                                                     readWallFile(wall, TRUE), ts, m),
                                       line |-> "WALL: " \o clientIP \o " [" \o ts
                                                  \o "] " \o m]]
           /\ hist' = <<ts \o "|" \o m \o "\n">> \o hist
  /\ steps' = steps + 1
  /\ UNCHANGED <<logf, wall, response>>
  /\ TaskFrame

\* SPIFFS.open("/wall.txt", "w") truncates the record
HandlerWallOpen ==
  /\ tasks.handler.at = "wallOpen"
  /\ wall' = FileOf("")
  /\ tasks' = [tasks EXCEPT !.handler.at = "wallPrint"]
  /\ UNCHANGED <<logf, response, steps, hist>>
  /\ TaskFrame

\* f.print(content)
HandlerWallPrint ==
  /\ tasks.handler.at = "wallPrint"
  /\ wall' = FileOf(wall.data \o tasks.handler.content)
  /\ tasks' = [tasks EXCEPT !.handler.at = "wallClose"]
  /\ UNCHANGED <<logf, response, steps, hist>>
  /\ TaskFrame

\* f.close(); appendToWall() returns and appendLog() begins
HandlerWallClose ==
  /\ tasks.handler.at = "wallClose"
  /\ tasks' = [tasks EXCEPT !.handler.at = "logOpen"]
  /\ UNCHANGED <<logf, wall, response, steps, hist>>
  /\ TaskFrame

\* appendLog() in the handler: SPIFFS.open("/log.txt", FILE_APPEND)
HandlerLogOpen ==
  /\ tasks.handler.at = "logOpen"
  /\ logf' = FileOf(logf.data)
  /\ tasks' = [tasks EXCEPT !.handler.at = "logPrint"]
  /\ UNCHANGED <<wall, response, steps, hist>>
  /\ TaskFrame

\* f.println(message): written at the end the record has now
HandlerLogPrint ==
  /\ tasks.handler.at = "logPrint"
  /\ logf' = FileOf(logf.data \o Println(tasks.handler.line))
  /\ tasks' = [tasks EXCEPT !.handler.at = "logClose"]
  /\ UNCHANGED <<wall, response, steps, hist>>
  /\ TaskFrame

\* f.close(), then request->redirect("/portal")
HandlerLogClose ==
  /\ tasks.handler.at = "logClose"
  /\ tasks' = [tasks EXCEPT !.handler = IdleTasks.handler]
  /\ response' = Redirect("/portal")
  /\ UNCHANGED <<logf, wall, steps, hist>>
  /\ TaskFrame

\* onWiFiEvent() for a station joining or leaving: appendLog() opens
EventLogOpen ==
  /\ tasks.event.at = "idle"
  /\ steps < MaxTaskOps
  /\ eventHooked
  /\ \E event \in {"AP_STACONNECTED", "AP_STADISCONNECTED"}, mac \in Macs :
       tasks' = [tasks EXCEPT
                   !.event = [at |-> "logPrint",
                              line |-> IF event = "AP_STACONNECTED"
                                         THEN "CONNECTED: " \o mac
                                         ELSE "DISCONNECTED: " \o mac]]
  /\ logf' = FileOf(logf.data)
  /\ steps' = steps + 1
  /\ UNCHANGED <<wall, response, hist>>
  /\ TaskFrame

\* f.println(message) in the event task
EventLogPrint ==
  /\ tasks.event.at = "logPrint"
  /\ logf' = FileOf(logf.data \o Println(tasks.event.line))
  /\ tasks' = [tasks EXCEPT !.event.at = "logClose"]
  /\ UNCHANGED <<wall, response, steps, hist>>
  /\ TaskFrame

\* f.close() in the event task
EventLogClose ==
  /\ tasks.event.at = "logClose"
  /\ tasks' = [tasks EXCEPT !.event = IdleTasks.event]
  /\ UNCHANGED <<logf, wall, response, steps, hist>>
  /\ TaskFrame

NextTasks ==
  \/ HandlerWallRead \/ HandlerWallOpen \/ HandlerWallPrint \/ HandlerWallClose
  \/ HandlerLogOpen \/ HandlerLogPrint \/ HandlerLogClose
  \/ EventLogOpen \/ EventLogPrint \/ EventLogClose

SpecTasks == InitTasks /\ [][NextTasks]_vars

\* The handler has /wall.txt between its read and its close
HandlerInWallUpdate == tasks.handler.at \in {"wallOpen", "wallPrint", "wallClose"}
\* The handler has /log.txt open for appending
HandlerInLogAppend == tasks.handler.at \in {"logPrint", "logClose"}
\* The event callback has /log.txt open for appending
EventInLogAppend == tasks.event.at \in {"logPrint", "logClose"}

\* C24: in portal mode the event callback's log append never overlaps a
\* handler's log append or its wall read-modify-write, and once both
\* tasks are idle every appended log line and wall entry is in its record.
OneWriterAtATime ==
  /\ ~(EventInLogAppend /\ HandlerInLogAppend)
  /\ ~(EventInLogAppend /\ HandlerInWallUpdate)
  /\ tasks = IdleTasks =>
       /\ CountChar(logf.data, "\n") = steps
       /\ readWallFile(wall, TRUE) = ConcatRange(hist, 1, Len(hist))

\* C25: an authorized /clearwall removes /wall.txt, so that the landing
\* page rendered next has no wall list; the next /submit-message that is
\* accepted with the public wall enabled leaves /wall.txt holding exactly
\* the one entry `HH:MM:SS|msg`.  Every open succeeds.
ClearedWallRestartsFromOneEntry ==
  pc = "portal" =>
    \A cleared \in {After(HandleClearWall(Cur, GoodUser, GoodPass, AllOk))} :
      /\ ~cleared.wall.exists
      /\ ~Contains(getLandingPageHtml(cleared.landing, TRUE, cleared.g, cleared.wall,
                                      TRUE),
                   "<div class=\"wall\">")
      /\ \A msg \in Msgs, ms \in Uptimes, clientIP \in ClientIps :
           (msg.has /\ Len(Trim(msg.val)) > 0 /\ cleared.g.publicWall) =>
             \A out \in {HandleSubmitMessage(cleared, msg, ms, clientIP, AllOk)} :
               /\ out.wall.exists
               /\ EntriesFrom(out.wall.data, 0)
                    = <<getTimestamp(ms) \o "|" \o SubmittedText(msg)>>

\* C26: when SPIFFS.begin() fails, setup() stays in its halt loop: the
\* boot has read no config, issued no join, set no WiFi mode and started
\* neither the portal, the DNS responder nor the server; the halt is
\* entered from the mount only and no step leaves it.
MountFailureHalts ==
  /\ [](bootOutcome = "halted" =>
          /\ pc = "halted"
          /\ ~cfgOpened
          /\ ~join.issued
          /\ wifiMode = "off"
          /\ ~apMode /\ ~serverBegun /\ ~dnsStarted /\ ~dnsServiced /\ ~eventHooked
          /\ statusReads = 0)
  /\ [][(pc # "halted") /\ (pc' = "halted" => pc = "mount")]_vars

\* C26 witness: the device halted on a failed mount although /config.txt
\* holds credentials it would have joined with.
HaltedWithStoredCredentials ==
  /\ pc = "halted"
  /\ bootOutcome = "halted"
  /\ readConfig(config, TRUE, g).ok

\* ---------------------------------------------------------------------
\* htmlEscape() on its own
\* ---------------------------------------------------------------------
\* Longest string built from the alphabet
MaxEscapeLen == 3

EscapeAlphabet == {"&", "<", ">", "\"", "a", ";"}

\* The strings of up to n characters of the alphabet
RECURSIVE StringsUpTo(_)
StringsUpTo(n) ==
  IF n = 0 THEN {""}
  ELSE LET shorter == StringsUpTo(n - 1)
       IN  shorter \cup {s \o c : s \in shorter, c \in EscapeAlphabet}

EscapeInputs ==
  StringsUpTo(MaxEscapeLen) \cup {"<script>&\"", "&amp;", "a&lt;b", "x&&quot;y"}

\* The portal is up and htmlEscape() is about to be called on a string
InitEscape ==
  /\ \E s \in EscapeInputs : escape = [NoEscape EXCEPT !.input = s]
  /\ tasks = IdleTasks
  /\ pc = "portal"
  /\ config = NoFile
  /\ logf = NoFile
  /\ wall = NoFile
  /\ landing = NoFile
  /\ g = DefaultSettings
  /\ apMode = TRUE
  /\ wifiMode = "ap"
  /\ join = NoJoin
  /\ retries = 0
  /\ statusReads = 0
  /\ waitMs = 0
  /\ everConnected = FALSE
  /\ cfgOpened = FALSE
  /\ bootOutcome = "nocreds"
  /\ serverBegun = TRUE
  /\ dnsStarted = TRUE
  /\ dnsServiced = FALSE
  /\ eventHooked = TRUE
  /\ response = NoResponse
  /\ steps = 0
  /\ faults = 0
  /\ hist = <<>>

EscapeFrame ==
  UNCHANGED <<pc, stores, g, portalVars, setupVars, bootOutcome, dnsServiced, response,
              steps, faults, hist, tasks>>

\* htmlEscape(input)
EscapeOnce ==
  /\ escape.passes = 0
  /\ escape' = [escape EXCEPT !.once = htmlEscape(escape.input), !.passes = 1]
  /\ EscapeFrame

\* htmlEscape() of that result
EscapeAgain ==
  /\ escape.passes = 1
  /\ escape' = [escape EXCEPT !.twice = htmlEscape(escape.once), !.passes = 2]
  /\ EscapeFrame

NextEscape == EscapeOnce \/ EscapeAgain

SpecEscape == InitEscape /\ [][NextEscape]_vars

\* The length of the entity at position i of s, 0 when none starts there
EntityLenAt(s, i) ==
  IF Substring(s, i, i + 5) = "&amp;" THEN 5
  ELSE IF Substring(s, i, i + 4) = "&lt;" THEN 4
  ELSE IF Substring(s, i, i + 4) = "&gt;" THEN 4
  ELSE IF Substring(s, i, i + 6) = "&quot;" THEN 6
  ELSE 0

\* C27: htmlEscape() maps each input character once: the output is as
\* long as the input plus 4 for each `&`, 3 for each `<` and `>` and 5 for
\* each `"`; it holds no raw `<`, `>` or `"`, and every `&` in it starts
\* one of `&amp;`, `&lt;`, `&gt;`, `&quot;`; escaping the output again
\* only turns each `&` of the first output into `&amp;`.
EscapeIsSinglePass ==
  /\ escape.passes >= 1 =>
       /\ Len(escape.once)
            = Len(escape.input) + 4 * CountChar(escape.input, "&")
                + 3 * CountChar(escape.input, "<") + 3 * CountChar(escape.input, ">")
                + 5 * CountChar(escape.input, "\"")
       /\ CountChar(escape.once, "<") = 0
       /\ CountChar(escape.once, ">") = 0
       /\ CountChar(escape.once, "\"") = 0
       /\ \A i \in 0..(Len(escape.once) - 1) :
            CharAt(escape.once, i) = "&" => EntityLenAt(escape.once, i) > 0
       /\ CountChar(escape.once, "&")
            = CountChar(escape.input, "&") + CountChar(escape.input, "<")
                + CountChar(escape.input, ">") + CountChar(escape.input, "\"")
  /\ escape.passes = 2 =>
       escape.twice = StrReplace(escape.once, "&", "&amp;")

\* C27 witness: `<script>&"` has been escaped twice.
ScriptEscapedTwice ==
  /\ escape.passes = 2
  /\ escape.input = "<script>&\""
  /\ escape.once = "&lt;script&gt;&amp;&quot;"
  /\ escape.twice = "&amp;lt;script&amp;gt;&amp;amp;&amp;quot;"

\* What a step of setup() does to the four records: only /log.txt may
\* change, and only by the line of a boot that ends in station mode
SetupStepEffect ==
  /\ config' = config
  /\ wall' = wall
  /\ landing' = landing
  /\ IF pc' = "station"
       THEN \E ip \in StaIps :
              LET line == "STA CONNECTED: " \o readConfig(config, TRUE, g).ssid
                            \o " IP=" \o ip
              IN  /\ CountChar(line, "\n") = 0
                  /\ logf' = IF faults' = faults
                               THEN FileOf(logf.data \o Println(line))
                               ELSE logf
       ELSE logf' = logf

\* C28: a step of setup() changes none of /config.txt, /wall.txt and the
\* landing record, and changes /log.txt only when it ends in station
\* mode: then, the open succeeding, it appends the one line
\* `STA CONNECTED: <ssid> IP=<address>` with the ssid stored in
\* /config.txt and the address assigned.
StationBootOnlyLogsConnection ==
  [][(pc \in {"mount", "readcfg", "connect", "check"}) => SetupStepEffect]_vars

\* C28 witness: the first boot joined and /log.txt holds just its line.
FirstBootLoggedConnection ==
  /\ pc = "station"
  /\ steps = 0
  /\ faults = 0
  /\ logf = FileOf(Println("STA CONNECTED: " \o join.ssid \o " IP=10.0.0.7"))
  /\ ~wall.exists /\ ~landing.exists

ProgramWritten(cfg) ==
  /\ cfg.exists
  /\ Contains(cfg.data, "ap_ssid=")
  /\ Contains(cfg.data, "site_name=")
  /\ Contains(cfg.data, "public_wall=")

\* Names an administrator can send to /save-settings
MirrorApSsids == {Field("FreeWiFi"), Field("a\nb")}
MirrorSiteNames == {Field("cafe"), Field("c\nd")}

\* C30: in portal mode, no open having failed, whenever /config.txt is a
\* record written by the sketch, g_apSsid, g_siteName and g_publicWall
\* equal the settings that record holds: in every state a handler leaves,
\* and after an authorized /save-settings with any names.
SettingsMirrorConfig ==
  (pc = "portal" /\ faults = 0) =>
    /\ ProgramWritten(config) => g = PersistedSettings(config)
    /\ \A ap_ssid \in MirrorApSsids, site_name \in MirrorSiteNames,
          public_wall \in BOOLEAN :
         \A out \in {HandleSaveSettings(Cur, GoodUser, GoodPass, ap_ssid, site_name,
                                        public_wall, AllOk)} :
           ProgramWritten(out.cfg) => out.g = PersistedSettings(out.cfg)

\* The records and settings /save can find: those of the current state,
\* and those an authorized /save-settings leaves when both its opens
\* failed after the settings in memory were set
BeforeSave ==
  {Cur} \cup {After(HandleSaveSettings(Cur, GoodUser, GoodPass, names[1], names[2],
                                       names[3],
                                       [AllOk EXCEPT ![1] = FALSE, ![2] = FALSE])) :
                names \in {<<Field("Guest"), Field("lobby"), TRUE>>,
                           <<Field("a\nb"), Field("c\nd"), FALSE>>}}

\* Credentials an administrator can send to /save
SaveCredentials ==
  {<<Field(" Lab "), Field("pw 1")>>, <<Field("Lab 2"), Missing>>,
   <<Field("a\nb"), Field("p\nsite_name=q")>>}

\* C31: an authorized /save that writes /config.txt, its opens of the
\* record succeeding, leaves ap_ssid, site_name and public_wall in the
\* record as they were persisted before, whenever the record already held
\* them, whatever ssid and passphrase are sent and whatever the settings
\* in memory were; the same holds when its open for reading fails and no
\* open failed before.
SaveKeepsPersistedSettings ==
  pc = "portal" =>
    \A st \in BeforeSave :
      ProgramWritten(st.cfg) =>
        \A before \in {PersistedSettings(st.cfg)} :
          \A cred \in SaveCredentials :
            /\ \A out \in {HandleSave(st, GoodUser, GoodPass, cred[1], cred[2], AllOk)} :
                 /\ out.restart
                 /\ ProgramWritten(out.cfg)
                 /\ PersistedSettings(out.cfg) = before
            /\ (faults = 0 /\ st.g = g) =>
                 \A out \in {HandleSave(st, GoodUser, GoodPass, cred[1], cred[2],
                                        [AllOk EXCEPT ![1] = FALSE])} :
                   /\ out.restart
                   /\ PersistedSettings(out.cfg) = before

\* C31 witness: credentials were deployed over a record that held the
\* settings FreeWiFi, cafe and a disabled wall, and the record holds them
\* still.
DeployedOverStoredSettings ==
  /\ pc = "mount"
  /\ response = CredentialsSavedPage
  /\ CredentialSlots(config)[1] = "Lab"
  /\ PersistedSettings(config)
       = [apSsid |-> "FreeWiFi", siteName |-> "cafe", publicWall |-> FALSE]

====
